---- MODULE Spec2Model ----
(***************************************************************************)
(* Model of rawdb's schema engine: the field-type catalog, the field       *)
(* objects (AtomicDataField, AtomicArrayField, AtomicFieldPointer,         *)
(* AtomicStructField), AtomicStructBuilder, Restriction and the schema     *)
(* bound value containers (Editable, SizedCollection), of the byte stream  *)
(* handlers IOBytesHandler and IOFileHandler, of the EventManager and of   *)
(* the NARC archive with its sections BTAF, BTNF and GMIF.                 *)
(*                                                                         *)
(* Python objects live in `heap`: an object is a record of its attributes, *)
(* an attribute that refers to another object holds that object's index.  *)
(* copy() is Python's shallow copy: a new heap cell with the same          *)
(* attribute values, references included.                                  *)
(***************************************************************************)
EXTENDS Integers, Sequences, FiniteSets, TLC

VARIABLES
    heap,       \* Seq of field objects; the index is the object's identity
    fields,     \* AtomicStructBuilder.fields: insertion-ordered dict, Seq of [key, ref]
    structs,    \* structs returned by build() and still held by the caller
    held,       \* field objects (data, array, pointer) made and held by the caller
    made,       \* copies made of a caller-held object, by a pointer or by
                \* add_struct: [ptr, src], ptr the pointer or the embedded copy
    last,       \* the last call: its name, arguments and outcome
    nops,       \* number of calls made so far
    keys,       \* Editable.keys: field name -> [value, restriction]
    coll,       \* a SizedCollection: [entries, resizable, restriction]
    restr,      \* a Restriction the caller made and holds
    io,         \* the IOHandlers, "bytes" and "file": [content, position,
                \* readable, writable]; the file handler's content is its file
    wrote,      \* per handler, the last write_str while nothing else has
                \* written since: <<[at, text, size]>>, size the length of the
                \* content before it
    answer,     \* when the same call was made on both handlers: what each
                \* returned, [ret, value], and within: every such call so far
                \* stayed within the contents
    registered, \* EventManager._registered_handlers: event name -> list of handlers
    calls,      \* the handlers called by the last fire(), in call order
    narc,       \* a NARC: [header, btaf, btnf, gmif], each the attributes of
                \* that section
    added,      \* the files added to narc so far: Seq of [content, offset]
    loaded      \* the last BTNF.save followed by BTNF.load of what it wrote:
                \* [section, ret, position, reads]

vars == <<heap, fields, structs, held, made, last, nops, keys, coll, restr, io, wrote,
          answer, registered, calls, narc, added, loaded>>

builderVars == <<heap, fields, structs, held, made>>
ioVars == <<io, wrote, answer>>
eventVars == <<registered, calls>>
narcVars == <<narc, added, loaded>>
appVars == <<eventVars, narcVars>>
editVars == <<keys, coll, restr, ioVars, appVars>>
baseVars == <<builderVars, keys, coll, restr, ioVars>>

-----------------------------------------------------------------------------
(* Bounds *)

MaxOps == 3
InitialLength == 2
MaxLength == 3
MaxSeek == 3

-----------------------------------------------------------------------------
(* FieldTypes: the catalog.  A bound (min, max) is kept as                  *)
(* sign * (base^exp - off), which also writes the 32 and 64 bit limits and  *)
(* 1e37 exactly; python_type is the native kind.                            *)

Bound(sign, base, exp, off) == [sign |-> sign, base |-> base, exp |-> exp, off |-> off]

Zero == Bound(0, 2, 0, 0)

FieldType(type_name, size, python_type, min, max) ==
    [type_name |-> type_name, size |-> size, python_type |-> python_type,
     min |-> min, max |-> max]

FieldTypes ==
    [t \in {"char", "bool", "uint8_t", "uint16_t", "uint32_t", "uint64_t",
            "int8_t", "int16_t", "int32_t", "int64_t", "double", "float"} |->
        CASE t = "char"     -> FieldType("char", 1, "str", Zero, Zero)
          [] t = "bool"     -> FieldType("bool", 1, "bool", Zero, Bound(1, 2, 1, 1))
          [] t = "uint8_t"  -> FieldType("uint8_t", 1, "int", Zero, Bound(1, 2, 8, 1))
          [] t = "uint16_t" -> FieldType("uint16_t", 2, "int", Zero, Bound(1, 2, 16, 1))
          [] t = "uint32_t" -> FieldType("uint32_t", 4, "int", Zero, Bound(1, 2, 32, 1))
          [] t = "uint64_t" -> FieldType("uint64_t", 8, "int", Zero, Bound(1, 2, 64, 1))
          [] t = "int8_t"   -> FieldType("int8_t", 1, "int", Bound(-1, 2, 7, 0), Bound(1, 2, 7, 1))
          [] t = "int16_t"  -> FieldType("int16_t", 2, "int", Bound(-1, 2, 15, 0), Bound(1, 2, 15, 1))
          [] t = "int32_t"  -> FieldType("int32_t", 4, "int", Bound(-1, 2, 31, 0), Bound(1, 2, 31, 1))
          [] t = "int64_t"  -> FieldType("int64_t", 8, "int", Bound(-1, 2, 63, 0), Bound(1, 2, 63, 1))
          [] t = "double"   -> FieldType("double", 8, "float", Bound(-1, 10, 37, 0), Bound(1, 10, 37, 0))
          [] t = "float"    -> FieldType("float", 4, "float", Bound(-1, 10, 37, 0), Bound(1, 10, 37, 0))]

\* a bound whose magnitude is beyond every integer the model draws
Huge(b) == b.sign # 0 /\ ((b.base = 2 /\ b.exp >= 31) \/ (b.base = 10 /\ b.exp >= 10))

BoundValue(b) == b.sign * (b.base ^ b.exp - b.off)

\* b <= v and v <= b for a model integer v
BoundLeq(b, v) == IF Huge(b) THEN b.sign < 0 ELSE BoundValue(b) <= v
LeqBound(v, b) == IF Huge(b) THEN b.sign > 0 ELSE v <= BoundValue(b)

\* cls.__members__[type_name]: KeyError for a name that is no member
from_type_name_or_raise(type_name) ==
    IF type_name \in DOMAIN FieldTypes
    THEN [ret |-> "None", value |-> FieldTypes[type_name]]
    ELSE [ret |-> "KeyError", value |-> <<>>]

\* FieldTypes.from_type_name(type_name): cls.__members__.get(type_name), the
\* member registered under that name or None
from_type_name(type_name) ==
    IF type_name \in DOMAIN FieldTypes
    THEN [ret |-> "None", value |-> FieldTypes[type_name]]
    ELSE [ret |-> "None", value |-> <<>>]

\* isinstance(_type, FieldTypes): custom type names are drawn apart from the
\* catalog keys, so membership of the key set decides it.
IsFieldType(_type) == _type \in DOMAIN FieldTypes

PointerSize == 8

-----------------------------------------------------------------------------
(* Field objects *)

NoRef == 0
None == <<>>

\* rounding down instead of up
floor8(n) == n \div 8

\* ceil(n / 8) for n >= 0
ceil8(n) == IF n % 8 = 0 THEN n \div 8 ELSE (n \div 8) + 1

\* The attributes an instance may carry.  bit_size is None while the
\* attribute is not set (hasattr is false).
Obj(cls, name, type_name, width, default, size, bit_size, lengths, adf, flds, declared, extern) ==
    [cls |-> cls, name |-> name, type_name |-> type_name, width |-> width,
     default |-> default, size |-> size, bit_size |-> bit_size,
     lengths |-> lengths, atomic_data_field |-> adf, fields |-> flds,
     declared_struct_name |-> declared, is_extern |-> extern]

get_byte_size(o) == o.size

get_bit_size(o) == IF o.bit_size # None THEN o.bit_size[1] ELSE 0

\* a bit-field that also takes the bytes of its type
DataFieldSizeWithBits(_type, width) ==
    IF IsFieldType(_type) THEN FieldTypes[_type].size ELSE 0

DataFieldSize(_type, width) ==
    IF width = 0
    THEN IF IsFieldType(_type) THEN FieldTypes[_type].size ELSE 0
    ELSE 0

AtomicDataField(name, _type, width, default) ==
    Obj("data", name, _type, width, default,
        DataFieldSize(_type, width),
        IF width = 0 THEN None ELSE <<width>>,
        <<>>, NoRef, <<>>, "", FALSE)

\* the guard without its exemption of dimension 0
ArrayRaisesAlways(dimension, lengths) == Len(lengths) # dimension

\* the guard of AtomicArrayField.__init__ that raises AtomicError
ArrayRaises(dimension, lengths) == dimension # 0 /\ Len(lengths) # dimension

\* for dim in range(0, dimension): size *= lengths[dim]
RECURSIVE MulLengths(_, _, _, _)
MulLengths(size, lengths, dim, dimension) ==
    IF dim >= dimension THEN size
    ELSE MulLengths(size * lengths[dim + 1], lengths, dim + 1, dimension)

\* only the first length multiplied in
ArrayFieldSizeFirst(_type, dimension, lengths) ==
    IF IsFieldType(_type)
    THEN IF dimension = 0 THEN 8 ELSE FieldTypes[_type].size * lengths[1]
    ELSE 0

ArrayFieldSize(_type, dimension, lengths) ==
    IF IsFieldType(_type)
    THEN IF dimension = 0 THEN 8
         ELSE MulLengths(FieldTypes[_type].size, lengths, 0, dimension)
    ELSE 0

\* AtomicArrayField.__init__ when it does not raise; width holds the dimension
AtomicArrayField(name, _type, dimension, lengths) ==
    Obj("array", name, _type, dimension, None,
        ArrayFieldSize(_type, dimension, lengths),
        None, lengths, NoRef, <<>>, "", FALSE)

\* AtomicArrayField.of_pointer: the size is overwritten with 8 * prod(lengths)
PointerArraySize(dimension, lengths) ==
    IF dimension # 0 THEN MulLengths(8, lengths, 0, dimension) ELSE 8

\* the size left as the array of the pointee's type has it
of_pointer_sized_by_pointee(pointer, dimension, lengths) ==
    AtomicArrayField(pointer.name, pointer.type_name, dimension, lengths)

of_pointer(pointer, dimension, lengths) ==
    [AtomicArrayField(pointer.name, pointer.type_name, dimension, lengths)
        EXCEPT !.size = PointerArraySize(dimension, lengths)]

\* the name a pointer gives to its copy of the wrapped field
PointerName(o) ==
    IF o.cls = "array" THEN "*(" \o o.name \o ")" ELSE "*" \o o.name

\* no copy made: the same object
copy_alias(src, fresh) == src

\* the identity of the object copy() returns: a fresh cell
copy(src, fresh) == fresh

\* a pointer as large as what it points to
PointerSizeOfWrapped(o) == o.size

PointerSizeOf(o) == PointerSize

\* AtomicFieldPointer.__init__(atomic_data_field = h[src]): the copy of the
\* wrapped object (renamed) and the pointer are two new objects; the pointer
\* is the last cell of the heap returned.
AtomicFieldPointer(h, src) ==
    LET c  == copy(src, Len(h) + 1)
        h1 == IF c > Len(h) THEN Append(h, h[src]) ELSE h
        h2 == [h1 EXCEPT ![c].name = PointerName(h[src])]
        p  == Obj("pointer", h2[c].name, h2[c].type_name, 0, None,
                  PointerSizeOf(h[src]), None, <<>>, c, <<>>, "", FALSE)
    IN Append(h2, p)

\* for field in fields: bit_size += ...; size += ...
RECURSIVE SumBits(_, _)
SumBits(h, refs) ==
    IF refs = <<>> THEN 0
    ELSE get_bit_size(h[Head(refs)]) + SumBits(h, Tail(refs))

RECURSIVE SumBytes(_, _)
SumBytes(h, refs) ==
    IF refs = <<>> THEN 0
    ELSE get_byte_size(h[Head(refs)]) + SumBytes(h, Tail(refs))

StructSize(h, refs) == SumBytes(h, refs) + ceil8(SumBits(h, refs))

AtomicStructField(h, name, refs, declared_struct_name) ==
    Obj("struct", name, "", 0, None,
        StructSize(h, refs), <<SumBits(h, refs)>>,
        <<>>, NoRef, refs, declared_struct_name, FALSE)


\* AtomicStructField.set_extern / describe helpers
RECURSIVE Tabs(_)
Tabs(level) == IF level = 0 THEN "" ELSE "\t" \o Tabs(level - 1)

RECURSIVE Subscripts(_, _, _)
Subscripts(lengths, dimension, width) ==
    IF dimension >= width THEN ""
    ELSE "[" \o ToString(lengths[dimension + 1]) \o "]"
             \o Subscripts(lengths, dimension + 1, width)

DescribeData(o, level) ==
    Tabs(level) \o o.type_name \o " " \o o.name
        \o (IF o.width > 0 THEN ":" \o ToString(o.width) ELSE "")
        \o ";"
        \o (IF o.default # None THEN " // default: " \o ToString(o.default[1]) ELSE "")

DescribeArray(o, level) ==
    Tabs(level) \o o.type_name \o " " \o o.name
        \o (IF o.width = 0 THEN "[]" ELSE Subscripts(o.lengths, 0, o.width))
        \o ";"

\* '\n'.join(parts)
RECURSIVE Join(_)
Join(parts) ==
    IF parts = <<>> THEN ""
    ELSE IF Len(parts) = 1 THEN parts[1]
    ELSE parts[1] \o "\n" \o Join(Tail(parts))

\* describe(level) of the object h[id], dispatched on its class
RECURSIVE describe(_, _, _)
describe(h, id, level) ==
    LET o == h[id] IN
    CASE o.cls = "data"    -> DescribeData(o, level)
      [] o.cls = "array"   -> DescribeArray(o, level)
      [] o.cls = "pointer" -> describe(h, o.atomic_data_field, level)
      [] o.cls = "struct"  ->
            Tabs(level)
                \o (IF o.is_extern THEN "extern " ELSE "")
                \o "struct "
                \o (IF o.name # "" THEN o.name \o " " ELSE "")
                \o "{\n"
                \o Join([i \in 1..Len(o.fields) |-> describe(h, o.fields[i], level + 1)])
                \o "\n" \o Tabs(level) \o "}"
                \o (IF o.declared_struct_name # "" THEN " " \o o.declared_struct_name ELSE "")
                \o ";"

-----------------------------------------------------------------------------
(* AtomicStructBuilder.fields: a dict that keeps insertion order *)

DictKeys(d) == {d[i].key : i \in 1..Len(d)}

DictIndex(d, k) == CHOOSE i \in 1..Len(d) : d[i].key = k

\* a second entry for a key already present
DictSetAppend(d, k, ref) == Append(d, [key |-> k, ref |-> ref])

\* d[k] = ref: a present key keeps its position, a new key goes last
DictSet(d, k, ref) ==
    IF k \in DictKeys(d)
    THEN [d EXCEPT ![DictIndex(d, k)].ref = ref]
    ELSE Append(d, [key |-> k, ref |-> ref])

\* del d[k]
DictDel(d, k) ==
    LET i == DictIndex(d, k)
    IN [j \in 1..(Len(d) - 1) |-> IF j < i THEN d[j] ELSE d[j + 1]]

DictGet(d, k) == d[DictIndex(d, k)].ref

\* list(self.fields.values())
DictValues(d) == [i \in 1..Len(d) |-> d[i].ref]

-----------------------------------------------------------------------------
(* Values and restrictions *)

\* a Python value: its native kind, its number (int, bool) and its items
\* (the characters of a str, the elements of a list)
Val(kind, n, items) == [kind |-> kind, n |-> n, items |-> items]
NoVal == Val("none", 0, <<>>)
IntV(n) == Val("int", n, <<>>)
BoolV(b) == Val("bool", IF b THEN 1 ELSE 0, <<>>)
StrV(chars) == Val("str", 0, chars)
ListV(items) == Val("list", 0, items)

\* [x] * n
RECURSIVE Repeat(_, _)
Repeat(x, n) == IF n <= 0 THEN <<>> ELSE <<x>> \o Repeat(x, n - 1)

\* seq[:k], a negative k counting from the end
Slice(seq, k) ==
    LET stop == IF k < 0 THEN Len(seq) + k ELSE k
    IN IF stop <= 0 THEN <<>>
       ELSE IF stop >= Len(seq) THEN seq
       ELSE SubSeq(seq, 1, stop)

\* a validator: its name and the predicate it stands for
Validator(name, fn, kind, n) == [name |-> name, fn |-> fn, kind |-> kind, n |-> n]

\* validator(value) raises TypeError instead of returning: an order
\* comparison or a remainder of a value that is no number, len() of a
\* value that has no length, an iteration over one that has no items
IsNumber(value) == value.kind \in {"int", "bool", "float"}

Raises(v, value) ==
    CASE v.fn \in {"range", "even", "max"} -> ~IsNumber(value)
      [] v.fn \in {"len", "items_type"}   -> value.kind \notin {"str", "list"}
      [] OTHER                            -> FALSE

\* validator(value), when it returns; a bool is an int to isinstance
Eval(v, value) ==
    CASE v.fn = "isinstance" -> \/ value.kind = v.kind
                                \/ (v.kind = "int" /\ value.kind = "bool")
      [] v.fn = "range"      -> /\ BoundLeq(FieldTypes[v.kind].min, value.n)
                                /\ LeqBound(value.n, FieldTypes[v.kind].max)
      [] v.fn = "len"        -> Len(value.items) = v.n
      [] v.fn = "items_type" -> \A i \in 1..Len(value.items) : value.items[i].kind = v.kind
      [] v.fn = "even"       -> value.n % 2 = 0
      [] v.fn = "max"        -> value.n <= v.n

\* Restriction(restriction_name, *validators)
Restriction(restriction_name, validators) ==
    [restriction_name |-> restriction_name, validators |-> validators]

\* Restriction.restrict: self.validators.append((name, validator))
restrict(r, validator) == [r EXCEPT !.validators = Append(@, validator)]

\* every validator called before any result is looked at
validate_eager(validators, value, i) ==
    IF \E j \in 1..Len(validators) : Raises(validators[j], value)
    THEN 0 - (CHOOSE j \in 1..Len(validators) :
                 /\ Raises(validators[j], value)
                 /\ \A k \in 1..(j - 1) : ~Raises(validators[k], value))
    ELSE IF \E j \in 1..Len(validators) : ~Eval(validators[j], value)
    THEN CHOOSE j \in 1..Len(validators) :
             /\ ~Eval(validators[j], value)
             /\ \A k \in 1..(j - 1) : Eval(validators[k], value)
    ELSE 0

\* Restriction.validate, from the i-th validator on: 0 when the loop ends,
\* i when validator i returns false (RestrictionError names it), -i when
\* the call of validator i raises; no later validator is called
RECURSIVE validate_from(_, _, _)
validate_from(validators, value, i) ==
    IF i > Len(validators) THEN 0
    ELSE IF Raises(validators[i], value) THEN 0 - i
    ELSE IF ~Eval(validators[i], value) THEN i
    ELSE validate_from(validators, value, i + 1)

\* only the first validator consulted
validate_first_only(r, value) ==
    IF r.validators # <<>> /\ ~Eval(r.validators[1], value) THEN 1 ELSE 0

validate(r, value) == validate_from(r.validators, value, 1)

\* how a call of validate ends
Outcome(code) ==
    IF code = 0 THEN "None" ELSE IF code > 0 THEN "RestrictionError" ELSE "TypeError"

\* validate() of a container: every field's current value is validated
ValidateAll(k) == \A name \in DOMAIN k : validate(k[name].restriction, k[name].value) = 0

\* setattr that stores the value before it validates it
setattr_commit_first(k, name, value) ==
    [keys |-> [k EXCEPT ![name].value = value],
     ret  |-> Outcome(validate(k[name].restriction, value))]

\* Editable.__setattr__ on a restricted name: validate, raise on a
\* rejection, store otherwise
setattr(k, name, value) ==
    IF validate(k[name].restriction, value) # 0
    THEN [keys |-> k, ret |-> Outcome(validate(k[name].restriction, value))]
    ELSE [keys |-> [k EXCEPT ![name].value = value], ret |-> "None"]

\* The slot (value, restriction) an Editable makes for a field of its struct
Slot(value, restriction) == [value |-> value, restriction |-> restriction]

ScalarSlot(field) ==
    LET t == FieldTypes[field.type_name] IN
    CASE t.python_type = "str" ->
            Slot(StrV(<<0>>), Restriction(field.name,
                 <<Validator("type", "isinstance", "str", 0), Validator("size", "len", "", 1)>>))
      [] t.python_type = "bool" ->
            Slot(IF field.default # None THEN BoolV(field.default[1]) ELSE BoolV(FALSE),
                 Restriction(field.name, <<Validator("type", "isinstance", "bool", 0)>>))
      [] OTHER ->
            Slot(IF field.default # None THEN IntV(field.default[1]) ELSE IntV(0),
                 Restriction(field.name,
                 <<Validator("type", "isinstance", t.python_type, 0),
                   Validator("value", "range", field.type_name, 0)>>))

\* a pointer is given the slot of an unbounded array of what it points to:
\* an empty text or list, restricted on the kind of its elements only
UnboundedSlot(name, _type) ==
    IF _type = "char"
    THEN Slot(StrV(<<>>), Restriction(name, <<Validator("type", "isinstance", "str", 0)>>))
    ELSE Slot(ListV(<<>>), Restriction(name,
              <<Validator("type", "isinstance", "list", 0),
                Validator("items_type", "items_type", FieldTypes[_type].python_type, 0)>>))

\* an array of dimension 1: a text of lengths[0] - 1 null characters that
\* must keep that length, or lengths[0] copies of the element default
ArraySlot(field) ==
    IF field.type_name = "char"
    THEN Slot(StrV(Repeat(0, field.lengths[1] - 1)),
              Restriction(field.name,
                  <<Validator("type", "isinstance", "str", 0),
                    Validator("size", "len", "", field.lengths[1] - 1)>>))
    ELSE Slot(ListV(Repeat(IntV(0), field.lengths[1])),
              Restriction(field.name,
                  <<Validator("type", "isinstance", "list", 0),
                    Validator("items_type", "items_type",
                              FieldTypes[field.type_name].python_type, 0),
                    Validator("size", "len", "", field.lengths[1])>>))

\* Editable.__init__ over the fields that define() declared
EditableInit(schema) ==
    [name \in {schema[i].name : i \in 1..Len(schema)} |->
        LET field == schema[CHOOSE i \in 1..Len(schema) : schema[i].name = name]
        IN IF field.cls = "array" THEN ArraySlot(field) ELSE ScalarSlot(field)]

-----------------------------------------------------------------------------
(* SizedCollection: an Editable with the fields entries and resizable *)

Result(k, ret) == [keys |-> k, ret |-> ret]

IsStr(k) == k["entries"].value.kind = "str"

Entries(k) == k["entries"].value.items

\* the length the collection counts: a text counts its terminator
CollLength(k) == IF IsStr(k) THEN Len(Entries(k)) + 1 ELSE Len(Entries(k))

RestrictEntries(k, validator) ==
    [k EXCEPT !["entries"].restriction = restrict(@, validator)]

\* SizedCollection.__init__(_type, length, resizable)
SizedCollectionInit(_type, length, resizable) ==
    LET k0 == [name \in {"entries", "resizable"} |->
                  IF name = "entries"
                  THEN UnboundedSlot("entries", _type)
                  ELSE ScalarSlot(AtomicDataField("resizable", "bool", 0, <<resizable>>))]
    IN IF _type = "char"
       THEN RestrictEntries(setattr(k0, "entries", StrV(Repeat(0, length - 1))).keys,
                            Validator("field_size", "len", "", length - 1))
       ELSE RestrictEntries(
                setattr(k0, "entries",
                        ListV(Repeat(IntV(BoundValue(FieldTypes[_type].min)), length))).keys,
                Validator("field_size", "len", "", length))

\* self.entries += more: a text is rebound to a new text, a list is
\* extended in place and then rebound to itself, so that a rejected
\* assignment still leaves the list extended
Extend(k, more) ==
    IF IsStr(k)
    THEN setattr(k, "entries", StrV(Entries(k) \o more))
    ELSE LET k2 == [k EXCEPT !["entries"].value = ListV(Entries(k) \o more)]
         IN Result(k2, setattr(k2, "entries", k2["entries"].value).ret)

\* SizedCollection.resize(length)
resize(k, length) ==
    IF k["resizable"].value.n # 1 THEN Result(k, "None")
    ELSE LET old_length == CollLength(k) IN
         IF length = old_length THEN Result(k, "None")
         ELSE LET k1 == RestrictEntries(k,
                            Validator("field_size", "len", "",
                                      IF IsStr(k) THEN length - 1 ELSE length))
              IN IF length > old_length
                 THEN IF Entries(k1) = <<>>
                      THEN Result(k1, "IndexError")
                      ELSE Extend(k1, Repeat(Entries(k1)[1], length - old_length))
                 ELSE IF IsStr(k1)
                      THEN setattr(k1, "entries", StrV(Slice(Entries(k1), length - 1)))
                      ELSE setattr(k1, "entries", ListV(Slice(Entries(k1), length)))

\* strlist[key] = value; "".join(strlist)
Splice(chars, key, value) ==
    SubSeq(chars, 1, key) \o value.items \o SubSeq(chars, key + 2, Len(chars))

\* SizedCollection.__setitem__(key, value), key >= 0
setitem(k, key, value) ==
    IF key >= Len(Entries(k)) THEN Result(k, "IndexError")
    ELSE IF IsStr(k)
    THEN IF value.kind # "str" THEN Result(k, "TypeError")
         ELSE LET r == setattr(k, "entries", StrV(Splice(Entries(k), key, value)))
              IN IF r.ret # "None" THEN r
                 ELSE Result(r.keys, IF ValidateAll(r.keys) THEN "None" ELSE "RestrictionError")
    ELSE LET k1 == [k EXCEPT !["entries"].value.items[key + 1] = value]
         IN Result(k1, IF ValidateAll(k1) THEN "None" ELSE "RestrictionError")

\* SizedCollection.append(value)
append(k, value) ==
    IF k["resizable"].value.n # 1 THEN Result(k, "None")
    ELSE LET length == CollLength(k)
             r == resize(k, length + 1)
         IN IF r.ret # "None" THEN r
            ELSE setitem(r.keys, IF IsStr(k) THEN length - 1 ELSE length, value)

\* SizedCollection.pop()
pop(k) ==
    IF k["resizable"].value.n # 1 THEN Result(k, "None")
    ELSE IF Entries(k) = <<>> THEN Result(k, "IndexError")
    ELSE resize(k, CollLength(k) - 1)

-----------------------------------------------------------------------------
(* IOBytesHandler and IOFileHandler.  Bytes are numbers 0..255, a text is   *)
(* the sequence of its code points.                                         *)

Min(a, b) == IF a < b THEN a ELSE b
Max(a, b) == IF a > b THEN a ELSE b

\* seq[start:stop] as Python slices, negative indices counting from the end
PySlice(seq, start, stop) ==
    LET n == Len(seq)
        a == IF start < 0 THEN Max(n + start, 0) ELSE Min(start, n)
        b == IF stop < 0 THEN Max(n + stop, 0) ELSE Min(stop, n)
    IN IF a >= b THEN <<>> ELSE SubSeq(seq, a + 1, b)

\* seq.find(x, start): the first index >= start holding x, -1 when none
Find(seq, x, start) ==
    LET from == IF start < 0 THEN Max(Len(seq) + start, 0) ELSE start
        hits == {i \in from..(Len(seq) - 1) : seq[i + 1] = x}
    IN IF hits = {} THEN 0 - 1 ELSE CHOOSE i \in hits : \A j \in hits : i <= j

\* text.encode('utf-8'), code points below 0x800
RECURSIVE Utf8(_)
Utf8(text) ==
    IF text = <<>> THEN <<>>
    ELSE LET cp == Head(text)
         IN (IF cp < 128 THEN <<cp>> ELSE <<192 + (cp \div 64), 128 + (cp % 64)>>)
                \o Utf8(Tail(text))

\* data.decode('utf-8'): the text, or ok = FALSE for UnicodeDecodeError
RECURSIVE Utf8Decode(_)
Utf8Decode(data) ==
    IF data = <<>> THEN [ok |-> TRUE, text |-> <<>>]
    ELSE LET b == Head(data) IN
         IF b < 128
         THEN LET rest == Utf8Decode(Tail(data))
              IN [ok |-> rest.ok, text |-> <<b>> \o rest.text]
         ELSE IF b >= 194 /\ b < 224 /\ Len(data) >= 2 /\ data[2] >= 128 /\ data[2] < 192
         THEN LET rest == Utf8Decode(Tail(Tail(data)))
              IN [ok |-> rest.ok, text |-> <<(b - 192) * 64 + (data[2] - 128)>> \o rest.text]
         ELSE [ok |-> FALSE, text |-> <<>>]

Handler(content, position, readable, writable) ==
    [content |-> content, position |-> position, readable |-> readable, writable |-> writable]

\* the outcome of a call: the handler after it, how it ended, what it returned
IOResult(hd, ret, value) == [hd |-> hd, ret |-> ret, value |-> value]

\* getvalue(): the file handler reads its file, b'\0' when not readable
getvalue(hd) == IF hd.readable THEN hd.content ELSE <<0>>

\* transform_data(value): the content with value laid over it at position
transform_data(hd, value) ==
    LET data == getvalue(hd)
        first_data == PySlice(data, 0, hd.position)
    IN IF hd.position + Len(value) >= Len(data)
       THEN first_data \o value
       ELSE first_data \o value \o PySlice(data, hd.position + Len(value), Len(data))

\* write_str(string), the same in both handlers
write_str(hd, string) ==
    IF ~hd.writable THEN IOResult(hd, "None", NoVal)
    ELSE LET terminated == IF Find(string, 0, 0) = 0 - 1 THEN string \o <<0>> ELSE string
             bytes_string == Utf8(terminated)
         IN IOResult([hd EXCEPT !.content = transform_data(hd, bytes_string),
                                !.position = @ + Len(bytes_string)],
                     "None", NoVal)

\* str[:-1] of the decoded bytes, or the decoder's error
Decoded(hd, data) ==
    IF Utf8Decode(data).ok
    THEN IOResult(hd, "None", StrV(Slice(Utf8Decode(data).text, 0 - 1)))
    ELSE IOResult(hd, "UnicodeDecodeError", NoVal)

\* IOBytesHandler.read_str
BytesReadStr(hd) ==
    LET null_index == Find(hd.content, 0, hd.position)
    IN Decoded([hd EXCEPT !.position = null_index],
               PySlice(hd.content, hd.position, null_index))

\* IOFileHandler.read_str: one byte at a time up to the terminator; at the
\* end of the file read(1) gives b'' for ever and the loop does not end
FileReadStr(hd) ==
    IF ~hd.readable THEN IOResult(hd, "None", StrV(<<0>>))
    ELSE LET null_index == Find(hd.content, 0, hd.position)
             chars_read == null_index - hd.position + 1
         IN IF null_index = 0 - 1 THEN IOResult(hd, "Hang", NoVal)
            ELSE Decoded([hd EXCEPT !.position = @ + chars_read],
                         PySlice(hd.content, hd.position, hd.position + chars_read))

read_str(h, hd) == IF h = "bytes" THEN BytesReadStr(hd) ELSE FileReadStr(hd)

\* StructModes: the format character, its calcsize and whether it is signed
StructModes ==
    [int8   |-> [format |-> "b", size |-> 1, signed |-> TRUE],
     uint8  |-> [format |-> "B", size |-> 1, signed |-> FALSE],
     int16  |-> [format |-> "h", size |-> 2, signed |-> TRUE],
     uint16 |-> [format |-> "H", size |-> 2, signed |-> FALSE],
     int32  |-> [format |-> "i", size |-> 4, signed |-> TRUE],
     uint32 |-> [format |-> "I", size |-> 4, signed |-> FALSE],
     int64  |-> [format |-> "q", size |-> 8, signed |-> TRUE],
     uint64 |-> [format |-> "Q", size |-> 8, signed |-> FALSE]]

calcsize(mode) == StructModes[mode].size

\* the i-th byte (from 0) of value in two's complement; the values of the
\* model are below 2^31 in size, so that the bytes from the fifth on are
\* the sign only
ByteOf(value, i) ==
    IF i >= 4 THEN (IF value < 0 THEN 255 ELSE 0) ELSE (value \div (256 ^ i)) % 256

\* mode.pack(value) in the native byte order (little-endian), or ok = FALSE
\* for struct.error when the value is out of the mode's range
pack(mode, value) ==
    LET n == calcsize(mode)
        half == 2 ^ (8 * n - 1)
        fits == IF n >= 4 THEN StructModes[mode].signed \/ 0 <= value
                ELSE IF StructModes[mode].signed
                THEN 0 - half <= value /\ value < half
                ELSE 0 <= value /\ value - half < half
    IN IF fits THEN [ok |-> TRUE, data |-> [i \in 1..n |-> ByteOf(value, i - 1)]]
       ELSE [ok |-> FALSE, data |-> <<>>]

\* mode.unpack(data)[0] of exactly calcsize(mode) bytes
RECURSIVE Magnitude(_)
Magnitude(data) ==
    IF data = <<>> THEN 0 ELSE Head(data) + 256 * Magnitude(Tail(data))

unpack(mode, data) ==
    LET n == Len(data)
    IN IF StructModes[mode].signed /\ data[n] >= 128
       THEN Magnitude(SubSeq(data, 1, n - 1)) + (data[n] - 256) * (256 ^ (n - 1))
       ELSE Magnitude(data)

\* IOBytesHandler.read: unpack_from counts a negative offset from the end
\* and raises before the position moves
BytesRead(hd, mode) ==
    LET struct_len == calcsize(mode)
        offset == IF hd.position < 0 THEN Len(hd.content) + hd.position ELSE hd.position
    IN IF offset < 0 \/ offset + struct_len > Len(hd.content)
       THEN IOResult(hd, "struct.error", NoVal)
       ELSE IOResult([hd EXCEPT !.position = @ + struct_len], "None",
                     IntV(unpack(mode, SubSeq(hd.content, offset + 1, offset + struct_len))))

\* IOFileHandler.read: the position moves before unpack raises on a short read
FileRead(hd, mode) ==
    IF ~hd.readable THEN IOResult(hd, "None", IntV(0))
    ELSE IF hd.position < 0 THEN IOResult(hd, "OSError", NoVal)
    ELSE LET struct_len == calcsize(mode)
             data == PySlice(hd.content, hd.position, hd.position + struct_len)
             moved == [hd EXCEPT !.position = @ + struct_len]
         IN IF Len(data) # struct_len THEN IOResult(moved, "struct.error", NoVal)
            ELSE IOResult(moved, "None", IntV(unpack(mode, data)))

read(h, hd, mode) == IF h = "bytes" THEN BytesRead(hd, mode) ELSE FileRead(hd, mode)

\* write(mode, value), the same in both handlers
write(hd, mode, value) ==
    IF ~hd.writable THEN IOResult(hd, "None", NoVal)
    ELSE IF ~pack(mode, value).ok THEN IOResult(hd, "struct.error", NoVal)
    ELSE IOResult([hd EXCEPT !.content = transform_data(hd, pack(mode, value).data),
                             !.position = @ + calcsize(mode)],
                  "None", NoVal)

\* write_bytes(string), the same in both handlers: a b'\0' is added at the
\* end when the data holds none
write_bytes(hd, string) ==
    IF ~hd.writable THEN IOResult(hd, "None", NoVal)
    ELSE LET terminated == IF Find(string, 0, 0) = 0 - 1 THEN string \o <<0>> ELSE string
         IN IOResult([hd EXCEPT !.content = transform_data(hd, terminated),
                                !.position = @ + Len(terminated)],
                     "None", NoVal)

\* value * n on bytes
RECURSIVE Times(_, _)
Times(value, n) == IF n <= 0 THEN <<>> ELSE value \o Times(value, n - 1)

\* align(byte_number, value), the same in both handlers
align(hd, byte_number, value) ==
    IF ~hd.writable THEN IOResult(hd, "None", NoVal)
    ELSE IF byte_number = 0 THEN IOResult(hd, "ZeroDivisionError", NoVal)
    ELSE LET byte == IF Len(value) > 1 THEN PySlice(value, 0, 1) ELSE value
             bytes_to_write == Times(byte, hd.position % byte_number)
         IN IOResult([hd EXCEPT !.content = transform_data(hd, bytes_to_write),
                                !.position = @ + Len(bytes_to_write)],
                     "None", NoVal)

-----------------------------------------------------------------------------
(* EventManager.  A handler is a callable of the caller's; what the ones    *)
(* used here do when called with the event:                                 *)
(*   log    nothing                                                         *)
(*   stop   event.cancel()                                                  *)
(*   leave  manager.remove_event_handler(event.name, leave)                 *)
(*   join   manager.register_event_handler(event.name, late)                *)
(*   late   nothing                                                         *)

\* register_event_handler(event_name, event_handler) on the dict
register_event_handler(reg, event_name, event_handler) ==
    IF event_name \in DOMAIN reg
    THEN [reg EXCEPT ![event_name] = Append(@, event_handler)]
    ELSE [n \in DOMAIN reg \cup {event_name} |->
             IF n = event_name THEN <<event_handler>> ELSE reg[n]]

\* list.remove(x): without the first x
ListRemove(list, x) ==
    LET i == CHOOSE i \in 1..Len(list) : list[i] = x /\ \A j \in 1..(i - 1) : list[j] # x
    IN SubSeq(list, 1, i - 1) \o SubSeq(list, i + 1, Len(list))

\* remove_event_handler(event_name, event_handler): the dict after it and
\* how the call ended, list.remove raising ValueError when x is not in the list
remove_event_handler(reg, event_name, event_handler) ==
    IF event_name \notin DOMAIN reg THEN [reg |-> reg, ret |-> "None"]
    ELSE IF \A i \in 1..Len(reg[event_name]) : reg[event_name][i] # event_handler
    THEN [reg |-> reg, ret |-> "ValueError"]
    ELSE [reg |-> [reg EXCEPT ![event_name] = ListRemove(@, event_handler)], ret |-> "None"]

\* remove_all_handlers(event_name): del dict[event_name]
remove_all_handlers(reg, event_name) == [n \in DOMAIN reg \ {event_name} |-> reg[n]]

\* event_handler(event) for the handlers above
RunHandler(reg, event_name, event_handler) ==
    IF event_handler = "leave" THEN remove_event_handler(reg, event_name, "leave")
    ELSE IF event_handler = "join"
    THEN [reg |-> register_event_handler(reg, event_name, "late"), ret |-> "None"]
    ELSE [reg |-> reg, ret |-> "None"]

\* Event(name, source, data), and the event after cancel()
Event(name) == [name |-> name, cancelled |-> FALSE]
cancel(event) == [event EXCEPT !.cancelled = TRUE]

\* event_handler(event): what it does to the dict and to the event
CallHandler(reg, event, event_handler) ==
    [run |-> RunHandler(reg, event.name, event_handler),
     event |-> IF event_handler = "stop" THEN cancel(event) ELSE event]

\* the outcome of fire(): the dict and the event after it, the handlers
\* called, and how it ended
Fired(reg, event, called, ret) == [reg |-> reg, event |-> event, calls |-> called, ret |-> ret]

RECURSIVE fire_loop_no_break(_, _, _, _)
fire_loop_no_break(reg, event, i, called) ==
    IF i > Len(reg[event.name]) THEN Fired(reg, event, called, "None")
    ELSE LET event_handler == reg[event.name][i]
             c == CallHandler(reg, event, event_handler)
         IN IF c.run.ret # "None"
            THEN Fired(c.run.reg, c.event, Append(called, event_handler), c.run.ret)
            ELSE fire_loop_no_break(c.run.reg, c.event, i + 1, Append(called, event_handler))

\* the for loop of fire() from the list iterator's index i on: the iterator
\* walks the list of event.name as it is at each step; an exception of a
\* handler ends fire()
RECURSIVE fire_loop(_, _, _, _)
fire_loop(reg, event, i, called) ==
    IF i > Len(reg[event.name]) THEN Fired(reg, event, called, "None")
    ELSE LET event_handler == reg[event.name][i]
             c == CallHandler(reg, event, event_handler)
         IN IF c.run.ret # "None"
            THEN Fired(c.run.reg, c.event, Append(called, event_handler), c.run.ret)
            ELSE IF c.event.cancelled
            THEN Fired(c.run.reg, c.event, Append(called, event_handler), "None")
            ELSE fire_loop(c.run.reg, c.event, i + 1, Append(called, event_handler))

\* fire(event)
fire(reg, event) ==
    IF event.name \notin DOMAIN reg THEN Fired(reg, event, <<>>, "None")
    ELSE fire_loop(reg, event, 1, <<>>)

-----------------------------------------------------------------------------
(* NARC archive: the file allocation table BTAF, the file name table BTNF,  *)
(* the file data GMIF and the generic header.  Each section is the record   *)
(* of its attributes; a name is the sequence of its code points.            *)

\* BTAF.__init__; files_offset is the pointer field that define() declares
BTAF ==
    [magic_id |-> 1178686530, section_size |-> 12, file_number |-> 0, current_offset |-> 0,
     files_offset |-> UnboundedSlot("files_offset", "uint32_t").value.items]

\* BTAF.add_file that leaves the padding out of the start offset
BTAF_add_file_unpadded(btaf, size, offset) ==
    [btaf EXCEPT !.section_size = @ + 8,
                 !.file_number = @ + 1,
                 !.files_offset = Append(@, <<btaf.current_offset, btaf.current_offset + size>>),
                 !.current_offset = @ + offset + size]

\* BTAF.add_file(size, offset)
BTAF_add_file(btaf, size, offset) ==
    [btaf EXCEPT !.section_size = @ + 8,
                 !.file_number = @ + 1,
                 !.files_offset = Append(@, <<btaf.current_offset + offset,
                                              btaf.current_offset + offset + size>>),
                 !.current_offset = @ + offset + size]

\* GMIF.__init__
GMIF == [magic_id |-> 1179209031, section_size |-> 8, files |-> <<>>]

\* GMIF.add_file(file, offset, fill)
GMIF_add_file(gmif, file, offset, fill) ==
    LET content == getvalue(file)
    IN [gmif EXCEPT !.files = @ \o Times(fill, offset) \o content,
                    !.section_size = @ + offset + Len(content)]

\* GenericHeader.__init__(magic_id, section_size, header_size, subsection_number)
GenericHeader(magic_id, section_size, header_size, subsection_number) ==
    [magic_id |-> magic_id, section_size |-> section_size, header_size |-> header_size,
     subsection_number |-> subsection_number]

\* dict[key].append(item), the key being present
DictAppend(dict, key, item) ==
    [dict EXCEPT ![DictIndex(dict, key)].ref = Append(@, item)]

\* BTNF.__init__; has_nametable is the bool field that define() declares
\* with default False
BTNF ==
    [magic_id |-> 1179538498, section_size |-> 16, main_table |-> <<<<4, 0, 1>>>>,
     has_nametable |-> ScalarSlot(AtomicDataField("has_nametable", "bool", 0, <<FALSE>>)).value.n = 1,
     sub_tables |-> <<[key |-> 0, ref |-> <<>>]>>]

\* what a method of a section leaves and how it ended
Section(section, ret) == [section |-> section, ret |-> ret]

\* BTNF.use_nametable(value)
use_nametable(btnf, value) == [btnf EXCEPT !.has_nametable = value]

\* BTNF.add_directory(subtable_offset, first_file_id, parent_id,
\* directory_name, directory_id)
add_directory(btnf, subtable_offset, first_file_id, parent_id, directory_name, directory_id) ==
    LET listed == [btnf EXCEPT !.main_table = Append(@, <<subtable_offset, first_file_id, parent_id>>),
                               !.section_size = @ + 8]
        opened == [listed EXCEPT !.sub_tables = DictSet(@, directory_id, <<>>)]
        type_length == IF (Len(directory_name) \div 128) % 2 = 1
                       THEN Len(directory_name) ELSE 128 + Len(directory_name)
    IN IF ~btnf.has_nametable THEN Section(listed, "None")
       ELSE IF parent_id \notin DictKeys(opened.sub_tables) THEN Section(opened, "KeyError")
       ELSE Section([opened EXCEPT
                        !.sub_tables = DictAppend(@, parent_id,
                                           <<type_length, directory_name, directory_id>>),
                        !.section_size = @ + 3 + Len(directory_name)],
                    "None")

\* BTNF.add_file(parent_id, file_name)
BTNF_add_file(btnf, parent_id, file_name) ==
    IF ~btnf.has_nametable THEN Section(btnf, "None")
    ELSE IF parent_id \notin DictKeys(btnf.sub_tables) THEN Section(btnf, "KeyError")
    ELSE Section([btnf EXCEPT
                     !.sub_tables = DictAppend(@, parent_id, <<Len(file_name), file_name>>),
                     !.section_size = @ + Len(file_name) + 1],
                 "None")

\* NARC.__init__
NARC ==
    [header |-> GenericHeader(1129464142, 0, 16, 3), btaf |-> BTAF, btnf |-> BTNF, gmif |-> GMIF]

\* NARC.add_file(file, offset, file_name, parent_id): a KeyError of the name
\* table leaves the allocation table with the file and the data without it
NARC_add_file(n, file, offset, file_name, parent_id) ==
    LET content == getvalue(file)
        btaf == BTAF_add_file(n.btaf, Len(content), offset)
        named == BTNF_add_file(n.btnf, parent_id, file_name)
        gmif == GMIF_add_file(n.gmif, file, offset, <<255>>)
    IN IF named.ret # "None" THEN Section([n EXCEPT !.btaf = btaf], named.ret)
       ELSE Section([n EXCEPT !.btaf = btaf, !.btnf = named.section, !.gmif = gmif,
                              !.header.section_size = 16 + btaf.section_size
                                    + named.section.section_size + gmif.section_size],
                    "None")

\* NARC.export: the content of each file it writes, files_content[start:end]
\* written with write_bytes by a new IOFileHandler in mode 'w'
file_content(n, index) ==
    PySlice(n.gmif.files, n.btaf.files_offset[index][1], n.btaf.files_offset[index][2])

export(n) ==
    [index \in 1..Len(n.btaf.files_offset) |->
        write_bytes(Handler(<<>>, 0, FALSE, TRUE), file_content(n, index)).hd.content]

\* the writes of a method one after the other, up to the first that raises;
\* an item is <<mode, value>>
RECURSIVE WriteAll(_, _)
WriteAll(hd, items) ==
    IF items = <<>> THEN IOResult(hd, "None", NoVal)
    ELSE LET w == write(hd, Head(items)[1], Head(items)[2])
         IN IF w.ret # "None" THEN w ELSE WriteAll(w.hd, Tail(items))

\* the reads of a method one after the other, up to the first that raises:
\* the handler after them, how they ended and the values read
ReadResult(hd, ret, values) == [hd |-> hd, ret |-> ret, values |-> values]

RECURSIVE ReadAll(_, _, _)
ReadAll(h, hd, modes) ==
    IF modes = <<>> THEN ReadResult(hd, "None", <<>>)
    ELSE LET r == read(h, hd, Head(modes))
         IN IF r.ret # "None" THEN ReadResult(r.hd, r.ret, <<>>)
            ELSE LET rest == ReadAll(h, r.hd, Tail(modes))
                 IN ReadResult(rest.hd, rest.ret, <<r.value.n>> \o rest.values)

RECURSIVE Concat(_)
Concat(seqs) == IF seqs = <<>> THEN <<>> ELSE Head(seqs) \o Concat(Tail(seqs))

\* BTNF.save: what it writes for an item of a sub table; the directory id
\* follows the name when type_length > 0x80
SaveItem(item) ==
    <<<<"uint8", item[1]>>>>
        \o [i \in 1..Len(item[2]) |-> <<"uint8", item[2][i]>>]
        \o (IF item[1] > 128 THEN <<<<"uint16", item[3]>>>> ELSE <<>>)

\* BTNF.save(writer)
save(btnf, writer) ==
    WriteAll(writer,
        <<<<"uint32", btnf.magic_id>>, <<"uint32", btnf.section_size>>>>
        \o Concat([i \in 1..Len(btnf.main_table) |->
                      <<<<"uint32", btnf.main_table[i][1]>>,
                        <<"uint16", btnf.main_table[i][2]>>,
                        <<"uint16", btnf.main_table[i][3]>>>>])
        \o (IF btnf.has_nametable
            THEN Concat([t \in 1..Len(btnf.sub_tables) |->
                            Concat([i \in 1..Len(btnf.sub_tables[t].ref) |->
                                       SaveItem(btnf.sub_tables[t].ref[i])])])
            ELSE <<>>))

\* what BTNF.load leaves: the section, the reader, and how it ended
Loaded(btnf, hd, ret) == [btnf |-> btnf, hd |-> hd, ret |-> ret]

\* BTNF.load, the name table: the loop runs until position equals
\* section_size and nothing in it assigns position
RECURSIVE load_names(_, _, _, _)
load_names(h, btnf, hd, position) ==
    IF position = btnf.section_size THEN Loaded(btnf, hd, "None")
    ELSE LET named == [btnf EXCEPT !.has_nametable = TRUE]
             type_length == read(h, hd, "uint8")
         IN IF type_length.ret # "None" THEN Loaded(named, type_length.hd, type_length.ret)
            ELSE IF 0 < type_length.value.n /\ type_length.value.n < 128
            THEN LET file_name == ReadAll(h, type_length.hd,
                                          Repeat("uint8", type_length.value.n))
                 IN IF file_name.ret # "None"
                    THEN Loaded(named, file_name.hd, file_name.ret)
                    ELSE load_names(h, named, file_name.hd, position)
            ELSE load_names(h, named, type_length.hd, position)

\* BTNF.load, the directories after the root: range(1, dir_number)
RECURSIVE load_directories(_, _, _, _, _)
load_directories(h, btnf, hd, position, left) ==
    IF left <= 0 THEN load_names(h, btnf, hd, position)
    ELSE LET entry == ReadAll(h, hd, <<"uint32", "uint16", "uint16">>)
         IN IF entry.ret # "None" THEN Loaded(btnf, entry.hd, entry.ret)
            ELSE load_directories(h, [btnf EXCEPT !.main_table = Append(@, entry.values)],
                                  entry.hd, position + 8, left - 1)

\* BTNF.load(reader), the reader one that can be read
load(h, btnf, reader) ==
    LET root == ReadAll(h, reader, <<"uint32", "uint32", "uint32", "uint16", "uint16">>)
        n == Len(root.values)
        partial == [btnf EXCEPT !.magic_id = IF n >= 1 THEN root.values[1] ELSE @,
                                !.section_size = IF n >= 2 THEN root.values[2] ELSE @]
    IN IF root.ret # "None" THEN Loaded(partial, root.hd, root.ret)
       ELSE load_directories(h, [partial EXCEPT !.main_table = <<SubSeq(root.values, 3, 5)>>],
                             root.hd, 16, root.values[5] - 1)

-----------------------------------------------------------------------------
(* Calls.  Every call is counted; `last` records its arguments and outcome. *)

Call(op, key, dimension, lengths, ret, ref) ==
    /\ nops < MaxOps
    /\ nops' = nops + 1
    /\ last' = [op |-> op, key |-> key, dimension |-> dimension,
                nlen |-> Len(lengths), ret |-> ret, ref |-> ref, arg |-> NoVal]

\* self.fields[name] = <the object just allocated as the last cell of h>
Store(h, name) ==
    /\ heap' = h
    /\ fields' = DictSet(fields, name, Len(h))

\* the call raised before it touched the builder
Raised(op, key, dimension, lengths) ==
    /\ Call(op, key, dimension, lengths, "AtomicError", NoRef)
    /\ UNCHANGED <<heap, fields>>

new_builder ==
    /\ Call("__init__", "", 0, <<>>, "self", NoRef)
    /\ fields' = <<>>
    /\ UNCHANGED <<heap, structs, held, made, editVars>>

remove_field(name) ==
    /\ Call("remove_field", name, 0, <<>>, "None", NoRef)
    /\ fields' = IF name \in DictKeys(fields) THEN DictDel(fields, name) ELSE fields
    /\ UNCHANGED <<heap, structs, held, made, editVars>>

add_field(name, _type, width, default) ==
    /\ Call("add_field", name, 0, <<>>, "self", Len(heap) + 1)
    /\ Store(Append(heap, AtomicDataField(name, _type, width, default)), name)
    /\ UNCHANGED <<structs, held, made, editVars>>

add_array(name, _type, dimension, lengths) ==
    /\ IF ArrayRaises(dimension, lengths)
       THEN Raised("add_array", name, dimension, lengths)
       ELSE /\ Call("add_array", name, dimension, lengths, "self", Len(heap) + 1)
            /\ Store(Append(heap, AtomicArrayField(name, _type, dimension, lengths)), name)
    /\ UNCHANGED <<structs, held, made, editVars>>

add_array_custom(name, type_name, dimension, lengths) ==
    /\ IF ArrayRaises(dimension, lengths)
       THEN Raised("add_array_custom", name, dimension, lengths)
       ELSE /\ Call("add_array_custom", name, dimension, lengths, "self", Len(heap) + 1)
            /\ Store(Append(heap, AtomicArrayField(name, type_name, dimension, lengths)), name)
    /\ UNCHANGED <<structs, held, made, editVars>>

add_pointer_field(name, _type) ==
    LET h1 == Append(heap, AtomicDataField(name, _type, 0, None))
        h2 == AtomicFieldPointer(h1, Len(h1))
    IN /\ Call("add_pointer_field", name, 0, <<>>, "self", Len(h2))
       /\ Store(h2, name)
       /\ UNCHANGED <<structs, held, made, editVars>>

add_pointer_custom(name, type_name) ==
    LET h1 == Append(heap, AtomicDataField(name, type_name, 0, None))
        h2 == AtomicFieldPointer(h1, Len(h1))
    IN /\ Call("add_pointer_custom", name, 0, <<>>, "self", Len(h2))
       /\ Store(h2, name)
       /\ UNCHANGED <<structs, held, made, editVars>>

add_pointer_of_array(name, _type, dimension, lengths) ==
    /\ IF ArrayRaises(dimension, lengths)
       THEN Raised("add_pointer_of_array", name, dimension, lengths)
       ELSE LET h1 == Append(heap, AtomicArrayField(name, _type, dimension, lengths))
                h2 == AtomicFieldPointer(h1, Len(h1))
            IN /\ Call("add_pointer_of_array", name, dimension, lengths, "self", Len(h2))
               /\ Store(h2, name)
    /\ UNCHANGED <<structs, held, made, editVars>>

add_array_of_pointers(pointer, dimension, lengths) ==
    /\ IF ArrayRaises(dimension, lengths)
       THEN Raised("add_array_of_pointers", heap[pointer].name, dimension, lengths)
       ELSE /\ Call("add_array_of_pointers", heap[pointer].name, dimension, lengths,
                    "self", Len(heap) + 1)
            /\ Store(Append(heap, of_pointer(heap[pointer], dimension, lengths)),
                     heap[pointer].name)
    /\ UNCHANGED <<structs, held, made, editVars>>

\* the copy stored under the name it is declared with
add_struct_by_declared_name(struct, show_struct_name, declared_struct_name) ==
    LET c  == copy(struct, Len(heap) + 1)
        h1 == IF c > Len(heap) THEN Append(heap, heap[struct]) ELSE heap
        h2 == [h1 EXCEPT ![c].declared_struct_name = declared_struct_name,
                         ![c].name = IF show_struct_name THEN @ ELSE ""]
    IN /\ Call("add_struct", declared_struct_name, 0, <<>>, "self", c)
       /\ heap' = h2
       /\ fields' = DictSet(fields, declared_struct_name, c)
       /\ made' = made \cup {[ptr |-> c, src |-> struct]}
       /\ UNCHANGED <<structs, held, editVars>>

add_struct(struct, show_struct_name, declared_struct_name) ==
    LET c  == copy(struct, Len(heap) + 1)
        h1 == IF c > Len(heap) THEN Append(heap, heap[struct]) ELSE heap
        h2 == [h1 EXCEPT ![c].declared_struct_name = declared_struct_name,
                         ![c].name = IF show_struct_name THEN @ ELSE ""]
    IN /\ Call("add_struct", h2[struct].name, 0, <<>>, "self", c)
       /\ heap' = h2
       /\ fields' = DictSet(fields, h2[struct].name, c)
       /\ made' = made \cup {[ptr |-> c, src |-> struct]}
       /\ UNCHANGED <<structs, held, editVars>>

add_struct_field(name, struct) ==
    LET field == [AtomicDataField(name, "struct " \o heap[struct].name, 0, None)
                    EXCEPT !.size = get_byte_size(heap[struct])]
    IN /\ Call("add_struct_field", name, 0, <<>>, "self", Len(heap) + 1)
       /\ Store(Append(heap, field), name)
       /\ UNCHANGED <<structs, held, made, editVars>>

StructArraySize(struct_size, dimension, lengths) ==
    IF dimension = 0 THEN 8 ELSE MulLengths(struct_size, lengths, 0, dimension)

add_struct_array(name, struct, dimension, lengths) ==
    /\ IF ArrayRaises(dimension, lengths)
       THEN Raised("add_struct_array", name, dimension, lengths)
       ELSE LET struct_array ==
                    [AtomicArrayField(name, "struct " \o heap[struct].name, dimension, lengths)
                       EXCEPT !.size = StructArraySize(heap[struct].size, dimension, lengths)]
            IN /\ Call("add_struct_array", name, dimension, lengths, "self", Len(heap) + 1)
               /\ Store(Append(heap, struct_array), name)
    /\ UNCHANGED <<structs, held, made, editVars>>

add_pointer_struct_field(name, struct) ==
    LET h1 == Append(heap, AtomicDataField(name, "struct " \o heap[struct].name, 0, None))
        h2 == AtomicFieldPointer(h1, Len(h1))
    IN /\ Call("add_pointer_struct_field", name, 0, <<>>, "self", Len(h2))
       /\ Store(h2, name)
       /\ UNCHANGED <<structs, held, made, editVars>>

\* add_custom without its return statement
add_custom_returns_none(name, custom_type_name) ==
    /\ Call("add_custom", name, 0, <<>>, "None", Len(heap) + 1)
    /\ Store(Append(heap, AtomicDataField(name, custom_type_name, 0, None)), name)
    /\ UNCHANGED <<structs, held, made, editVars>>

add_custom(name, custom_type_name) ==
    /\ Call("add_custom", name, 0, <<>>, "self", Len(heap) + 1)
    /\ Store(Append(heap, AtomicDataField(name, custom_type_name, 0, None)), name)
    /\ UNCHANGED <<structs, held, made, editVars>>

build(name, declared_struct_name) ==
    /\ Call("build", name, 0, <<>>, "struct", Len(heap) + 1)
    /\ heap' = Append(heap, AtomicStructField(heap, name, DictValues(fields), declared_struct_name))
    /\ structs' = structs \cup {Len(heap) + 1}
    /\ UNCHANGED <<fields, held, made, editVars>>

\* AtomicFieldPointer.of_type: the caller keeps the pointer
of_type(name, _type) ==
    LET h1 == Append(heap, AtomicDataField(name, _type, 0, None))
        h2 == AtomicFieldPointer(h1, Len(h1))
    IN /\ Call("of_type", name, 0, <<>>, "pointer", Len(h2))
       /\ heap' = h2
       /\ held' = held \cup {Len(h2)}
       /\ UNCHANGED <<fields, structs, made, editVars>>

HeldPointers == {p \in held : heap[p].cls = "pointer"}

\* AtomicDataField(...) made by the caller
data_field(name, _type, width, default) ==
    /\ Call("AtomicDataField", name, 0, <<>>, "field", Len(heap) + 1)
    /\ heap' = Append(heap, AtomicDataField(name, _type, width, default))
    /\ held' = held \cup {Len(heap) + 1}
    /\ UNCHANGED <<fields, structs, made, editVars>>

\* AtomicArrayField(...) made by the caller
array_field(name, _type, dimension, lengths) ==
    /\ IF ArrayRaises(dimension, lengths)
       THEN /\ Raised("AtomicArrayField", name, dimension, lengths)
            /\ UNCHANGED held
       ELSE /\ Call("AtomicArrayField", name, dimension, lengths, "field", Len(heap) + 1)
            /\ heap' = Append(heap, AtomicArrayField(name, _type, dimension, lengths))
            /\ held' = held \cup {Len(heap) + 1}
            /\ UNCHANGED fields
    /\ UNCHANGED <<structs, made, editVars>>

\* AtomicFieldPointer(field) for a field the caller holds
pointer_of(field) ==
    LET h2 == AtomicFieldPointer(heap, field)
    IN /\ Call("AtomicFieldPointer", heap[field].name, 0, <<>>, "pointer", Len(h2))
       /\ heap' = h2
       /\ held' = held \cup {Len(h2)}
       /\ made' = made \cup {[ptr |-> Len(h2), src |-> field]}
       /\ UNCHANGED <<fields, structs, editVars>>

\* pointer.pointerize()
pointerize(pointer) ==
    LET h2 == AtomicFieldPointer(heap, pointer)
    IN /\ Call("pointerize", heap[pointer].name, 0, <<>>, "pointer", Len(h2))
       /\ heap' = h2
       /\ held' = held \cup {Len(h2)}
       /\ made' = made \cup {[ptr |-> Len(h2), src |-> pointer]}
       /\ UNCHANGED <<fields, structs, editVars>>

\* the fields the caller can reach: the held ones and, through the public
\* attribute atomic_data_field, the field a held pointer wraps
Reachable == held \cup {heap[p].atomic_data_field : p \in HeldPointers}

\* field.name = name, a plain attribute assignment by the caller
set_name(field, name) ==
    /\ Call("set_name", name, 0, <<>>, "None", field)
    /\ heap' = [heap EXCEPT ![field].name = name]
    /\ UNCHANGED <<fields, structs, held, made, editVars>>

\* field.size = size ("can be custom, in that case set its size afterwards")
set_size(field, size) ==
    /\ Call("set_size", heap[field].name, 0, <<>>, "None", field)
    /\ heap' = [heap EXCEPT ![field].size = size]
    /\ UNCHANGED <<fields, structs, held, made, editVars>>

\* the structs inside the struct h[id], at any depth
RECURSIVE NestedStructs(_, _)
NestedStructs(h, id) ==
    LET direct == {h[id].fields[i] : i \in {j \in 1..Len(h[id].fields) :
                                               h[h[id].fields[j]].cls = "struct"}}
    IN direct \cup UNION {NestedStructs(h, d) : d \in direct}

\* the structs the caller can reach: the ones it holds and, through the
\* public attribute fields, the structs inside them
ReachableStructs == structs \cup UNION {NestedStructs(heap, st) : st \in structs}

\* struct.set_extern(status)
set_extern(struct, status) ==
    /\ Call("set_extern", heap[struct].name, 0, <<>>, "struct", struct)
    /\ heap' = [heap EXCEPT ![struct].is_extern = status]
    /\ UNCHANGED <<fields, structs, held, made, editVars>>

CallV(op, key, arg, ret) ==
    /\ nops < MaxOps
    /\ nops' = nops + 1
    /\ last' = [op |-> op, key |-> key, dimension |-> 0, nlen |-> 0, ret |-> ret,
                ref |-> NoRef, arg |-> arg]

\* editable.<name> = value
set(name, value) ==
    /\ IF name \in DOMAIN keys
       THEN LET r == setattr(keys, name, value)
            IN /\ CallV("setattr", name, value, r.ret)
               /\ keys' = r.keys
       ELSE /\ CallV("setattr", name, value, "UnknownAttribute")
            /\ keys' = keys
    /\ UNCHANGED <<builderVars, coll, restr, ioVars, appVars>>

\* editable.restrict(name, validator_name, validator): one more validator
\* for a field that has a restriction, nothing for an absent name
add_restriction(name, validator) ==
    /\ CallV("restrict", name, NoVal, "None")
    /\ keys' = IF name \in DOMAIN keys
               THEN [keys EXCEPT ![name].restriction = restrict(@, validator)]
               ELSE keys
    /\ UNCHANGED <<builderVars, coll, restr, ioVars, appVars>>

coll_setitem(key, value) ==
    LET r == setitem(coll, key, value)
    IN /\ CallV("setitem", "entries", value, r.ret)
       /\ coll' = r.keys
       /\ UNCHANGED <<builderVars, keys, restr, ioVars, appVars>>

coll_resize(length) ==
    LET r == resize(coll, length)
    IN /\ CallV("resize", "entries", IntV(length), r.ret)
       /\ coll' = r.keys
       /\ UNCHANGED <<builderVars, keys, restr, ioVars, appVars>>

coll_append(value) ==
    LET r == append(coll, value)
    IN /\ CallV("append", "entries", value, r.ret)
       /\ coll' = r.keys
       /\ UNCHANGED <<builderVars, keys, restr, ioVars, appVars>>

coll_pop ==
    LET r == pop(coll)
    IN /\ CallV("pop", "entries", NoVal, r.ret)
       /\ coll' = r.keys
       /\ UNCHANGED <<builderVars, keys, restr, ioVars, appVars>>

\* Restriction(restriction_name, *validators) made by the caller
new_restriction(restriction_name, validators) ==
    /\ CallV("Restriction", restriction_name, NoVal, "None")
    /\ restr' = Restriction(restriction_name, validators)
    /\ UNCHANGED <<builderVars, keys, coll, ioVars, appVars>>

\* restriction.restrict(name, validator)
restriction_restrict(validator) ==
    /\ CallV("restrict", validator.name, NoVal, "None")
    /\ restr' = restrict(restr, validator)
    /\ UNCHANGED <<builderVars, keys, coll, ioVars, appVars>>

\* restriction.validate(value): `last` keeps how the call ended and the
\* validator name a RestrictionError carries
restriction_validate(value) ==
    LET code == validate(restr, value)
    IN /\ CallV("validate", IF code > 0 THEN restr.validators[code].name ELSE "",
                value, Outcome(code))
       /\ UNCHANGED <<builderVars, editVars>>

Handlers == {"bytes", "file"}

\* EventManager.__init__: no event name has a handler
NoHandlers == [event_name \in {} |-> <<>>]

\* nothing was called on both handlers yet
NoAnswer == [bytes |-> [ret |-> "", value |-> NoVal], file |-> [ret |-> "", value |-> NoVal],
             within |-> TRUE]

\* handler.write_str(string)
io_write_str(h, string) ==
    LET r == write_str(io[h], string)
    IN /\ CallV("write_str", h, StrV(string), r.ret)
       /\ io' = [io EXCEPT ![h] = r.hd]
       /\ wrote' = [wrote EXCEPT ![h] = <<[at |-> io[h].position, text |-> string,
                                          size |-> Len(io[h].content)]>>]
       /\ UNCHANGED <<builderVars, keys, coll, restr, appVars, answer>>

\* handler.seek(position)
io_seek(h, position) ==
    /\ CallV("seek", h, IntV(position), "None")
    /\ io' = [io EXCEPT ![h].position = position]
    /\ UNCHANGED <<builderVars, keys, coll, restr, appVars, wrote, answer>>

\* handler.read_str()
io_read_str(h) ==
    LET r == read_str(h, io[h])
    IN /\ CallV("read_str", h, r.value, r.ret)
       /\ io' = [io EXCEPT ![h] = r.hd]
       /\ UNCHANGED <<builderVars, keys, coll, restr, appVars, wrote, answer>>

\* what a call was given: write's (mode, value), align's (byte_number, value)
Given(mode, n, data) == [kind |-> mode, n |-> n, items |-> data]

\* handler.write(mode, value)
io_write(h, mode, value) ==
    LET r == write(io[h], mode, value)
    IN /\ CallV("write", h, Given(mode, value, <<>>), r.ret)
       /\ io' = [io EXCEPT ![h] = r.hd]
       /\ wrote' = [wrote EXCEPT ![h] = <<>>]
       /\ UNCHANGED <<builderVars, keys, coll, restr, appVars, answer>>

\* handler.write_bytes(string)
io_write_bytes(h, string) ==
    LET r == write_bytes(io[h], string)
    IN /\ CallV("write_bytes", h, Given("bytes", 0, string), r.ret)
       /\ io' = [io EXCEPT ![h] = r.hd]
       /\ wrote' = [wrote EXCEPT ![h] = <<>>]
       /\ UNCHANGED <<builderVars, keys, coll, restr, appVars, answer>>

\* handler.align(byte_number, value)
io_align(h, byte_number, value) ==
    LET r == align(io[h], byte_number, value)
    IN /\ CallV("align", h, Given("bytes", byte_number, value), r.ret)
       /\ io' = [io EXCEPT ![h] = r.hd]
       /\ wrote' = [wrote EXCEPT ![h] = <<>>]
       /\ UNCHANGED <<builderVars, keys, coll, restr, appVars, answer>>

\* the position is at most at the end of the contents
Within(hd) == 0 <= hd.position /\ hd.position <= Len(hd.content)

\* the same call made on the IOBytesHandler and on the IOFileHandler: r is
\* the outcome on each, inside whether the call stays within the contents
Both(r, inside) ==
    /\ io' = [h \in Handlers |-> r[h].hd]
    /\ wrote' = [h \in Handlers |-> <<>>]
    /\ answer' = [bytes |-> [ret |-> r["bytes"].ret, value |-> r["bytes"].value],
                  file |-> [ret |-> r["file"].ret, value |-> r["file"].value],
                  within |-> answer.within /\ inside /\ \A h \in Handlers : Within(io[h])]
    /\ UNCHANGED <<builderVars, keys, coll, restr, appVars>>

both_read(mode) ==
    LET r == [h \in Handlers |-> read(h, io[h], mode)]
    IN /\ CallV("read", "both", Given(mode, 0, <<>>), r["bytes"].ret)
       /\ Both(r, \A h \in Handlers : io[h].position + calcsize(mode) <= Len(io[h].content))

both_read_str ==
    LET r == [h \in Handlers |-> read_str(h, io[h])]
    IN /\ CallV("read_str", "both", NoVal, r["bytes"].ret)
       /\ Both(r, \A h \in Handlers : Find(io[h].content, 0, io[h].position) >= 0)

both_write(mode, value) ==
    LET r == [h \in Handlers |-> write(io[h], mode, value)]
    IN /\ CallV("write", "both", Given(mode, value, <<>>), r["bytes"].ret)
       /\ Both(r, TRUE)

both_write_bytes(string) ==
    LET r == [h \in Handlers |-> write_bytes(io[h], string)]
    IN /\ CallV("write_bytes", "both", Given("bytes", 0, string), r["bytes"].ret)
       /\ Both(r, TRUE)

both_write_str(string) ==
    LET r == [h \in Handlers |-> write_str(io[h], string)]
    IN /\ CallV("write_str", "both", StrV(string), r["bytes"].ret)
       /\ Both(r, TRUE)

both_align(byte_number, value) ==
    LET r == [h \in Handlers |-> align(io[h], byte_number, value)]
    IN /\ CallV("align", "both", Given("bytes", byte_number, value), r["bytes"].ret)
       /\ Both(r, TRUE)

both_seek(position) ==
    LET r == [h \in Handlers |-> IOResult([io[h] EXCEPT !.position = position], "None", NoVal)]
    IN /\ CallV("seek", "both", IntV(position), "None")
       /\ Both(r, \A h \in Handlers : position <= Len(io[h].content))

\* found = FieldTypes.from_type_name(type_name); last.arg is what it returned
find_type(type_name) ==
    LET r == from_type_name(type_name)
    IN /\ CallV("from_type_name", type_name, r.value, r.ret)
       /\ UNCHANGED <<builderVars, editVars>>

\* builder.add_field(name, found) with the member the last lookup found
add_found_field(name) ==
    /\ last.op = "from_type_name"
    /\ last.ret = "None"
    /\ last.arg # None
    /\ add_field(name, last.arg.type_name, 0, None)

\* manager.register_event_handler(event_name, event_handler)
em_register(event_name, event_handler) ==
    /\ CallV("register_event_handler", event_name, StrV(<<event_handler>>), "None")
    /\ registered' = register_event_handler(registered, event_name, event_handler)
    /\ UNCHANGED <<baseVars, narcVars, calls>>

\* manager.remove_event_handler(event_name, event_handler)
em_remove(event_name, event_handler) ==
    LET r == remove_event_handler(registered, event_name, event_handler)
    IN /\ CallV("remove_event_handler", event_name, StrV(<<event_handler>>), r.ret)
       /\ registered' = r.reg
       /\ UNCHANGED <<baseVars, narcVars, calls>>

\* manager.remove_all_handlers(event_name)
em_remove_all(event_name) ==
    /\ CallV("remove_all_handlers", event_name, NoVal, "None")
    /\ registered' = remove_all_handlers(registered, event_name)
    /\ UNCHANGED <<baseVars, narcVars, calls>>

\* event.cancelled before and after a fire(event)
EventArg(before, after) ==
    Val("event", IF before.cancelled THEN 1 ELSE 0, <<IF after.cancelled THEN 1 ELSE 0>>)

\* manager.fire(event)
em_fire(event) ==
    LET r == fire(registered, event)
    IN /\ CallV("fire", event.name, EventArg(event, r.event), r.ret)
       /\ registered' = r.reg
       /\ calls' = r.calls
       /\ UNCHANGED <<baseVars, narcVars>>

\* no section saved yet
NoLoad ==
    [state |-> "none", h |-> "bytes", reader |-> Handler(<<>>, 0, TRUE, TRUE),
     saved |-> BTNF, ret |-> "None"]

\* narc.add_file(file, offset, file_name, parent_id)
narc_add_file(file, offset, file_name, parent_id) ==
    LET r == NARC_add_file(narc, file, offset, file_name, parent_id)
    IN /\ CallV("NARC.add_file", "narc", Val("file", offset, getvalue(file)), r.ret)
       /\ narc' = r.section
       /\ added' = Append(added, [content |-> getvalue(file), offset |-> offset])
       /\ UNCHANGED <<baseVars, eventVars, loaded>>

\* narc.export(export_path, export_name); last.arg is what the files
\* written hold
narc_export ==
    /\ CallV("NARC.export", "narc", ListV(export(narc)), "None")
    /\ UNCHANGED <<baseVars, eventVars, narcVars>>

\* narc.btnf.use_nametable(value)
btnf_use_nametable(value) ==
    /\ CallV("use_nametable", "btnf", BoolV(value), "None")
    /\ narc' = [narc EXCEPT !.btnf = use_nametable(@, value)]
    /\ UNCHANGED <<baseVars, eventVars, added, loaded>>

\* narc.btnf.add_directory(subtable_offset, first_file_id, parent_id,
\* directory_name, directory_id)
btnf_add_directory(subtable_offset, first_file_id, parent_id, directory_name, directory_id) ==
    LET r == add_directory(narc.btnf, subtable_offset, first_file_id, parent_id,
                           directory_name, directory_id)
    IN /\ CallV("add_directory", "btnf", Val("directory", directory_id, directory_name), r.ret)
       /\ narc' = [narc EXCEPT !.btnf = r.section]
       /\ UNCHANGED <<baseVars, eventVars, added, loaded>>

\* narc.btnf.add_file(parent_id, file_name)
btnf_add_file(parent_id, file_name) ==
    LET r == BTNF_add_file(narc.btnf, parent_id, file_name)
    IN /\ CallV("BTNF.add_file", "btnf", Val("file", parent_id, file_name), r.ret)
       /\ narc' = [narc EXCEPT !.btnf = r.section]
       /\ UNCHANGED <<baseVars, eventVars, added, loaded>>

\* narc.btnf.save(writer) with a new handler of kind h
btnf_save(h) ==
    LET r == save(narc.btnf, Handler(<<>>, 0, TRUE, TRUE))
    IN /\ CallV("save", "btnf", StrV(<<h>>), r.ret)
       /\ loaded' = [state |-> IF r.ret = "None" THEN "saved" ELSE "none", h |-> h,
                     reader |-> r.hd, saved |-> narc.btnf, ret |-> r.ret]
       /\ UNCHANGED <<baseVars, eventVars, narc, added>>

\* writer.seek(0); narc.btnf.load(writer) of the section saved last
btnf_load ==
    LET r == load(loaded.h, narc.btnf, [loaded.reader EXCEPT !.position = 0])
    IN /\ loaded.state = "saved"
       /\ CallV("load", "btnf", StrV(<<loaded.h>>), r.ret)
       /\ narc' = [narc EXCEPT !.btnf = r.btnf]
       /\ loaded' = [loaded EXCEPT !.state = "loaded", !.reader = r.hd, !.ret = r.ret]
       /\ UNCHANGED <<baseVars, eventVars, added>>

-----------------------------------------------------------------------------
(* The builder on its own: every operation of AtomicStructBuilder, with the *)
(* structs it built and pointers made with of_type as later arguments.      *)

Names == {"a", "b"}
TagNames == {"flags"}
CustomInputs == {"custom_type"}
FieldInputs ==
    { [type |-> "uint8_t", width |-> 0], [type |-> "uint64_t", width |-> 0],
      [type |-> "uint8_t", width |-> 3], [type |-> "uint64_t", width |-> 6] }
ShapeInputs ==
    { [dimension |-> 0, lengths |-> <<3>>],
      [dimension |-> 1, lengths |-> <<3>>],
      [dimension |-> 2, lengths |-> <<10, 20>>],
      [dimension |-> 1, lengths |-> <<10, 20>>] }
FewShapes == {sh \in ShapeInputs : Len(sh.lengths) = 2}

\* the struct of the Editable:
\*     uint8_t age; uint8_t level; // default: 7
\*     char name[10];
Schema ==
    << AtomicDataField("age", "uint8_t", 0, None),
       AtomicDataField("level", "uint8_t", 0, <<7>>),
       AtomicArrayField("name", "char", 1, <<10>>) >>

NoCall == [op |-> "", key |-> "", dimension |-> 0, nlen |-> 0, ret |-> "", ref |-> NoRef,
           arg |-> NoVal]

Init ==
    /\ heap = <<>>
    /\ fields = <<>>
    /\ structs = {}
    /\ held = {}
    /\ made = {}
    /\ last = NoCall
    /\ nops = 0
    /\ keys = EditableInit(Schema)
    /\ coll = SizedCollectionInit("uint8_t", InitialLength, TRUE)
    /\ restr = Restriction("test", <<>>)
    /\ io = [h \in Handlers |-> Handler(<<>>, 0, TRUE, TRUE)]
    /\ wrote = [h \in Handlers |-> <<>>]
    /\ answer = NoAnswer
    /\ registered = NoHandlers
    /\ calls = <<>>
    /\ narc = NARC
    /\ added = <<>>
    /\ loaded = NoLoad

NextBuilder ==
    \/ new_builder
    \/ \E name \in Names : remove_field(name)
    \/ \E name \in Names, f \in FieldInputs : add_field(name, f.type, f.width, None)
    \/ \E sh \in ShapeInputs : add_array("a", "uint64_t", sh.dimension, sh.lengths)
    \/ \E t \in CustomInputs, sh \in ShapeInputs :
          add_array_custom("b", t, sh.dimension, sh.lengths)
    \/ \E name \in Names : add_pointer_field(name, "uint64_t")
    \/ \E t \in CustomInputs : add_pointer_custom("a", t)
    \/ \E sh \in ShapeInputs : add_pointer_of_array("b", "uint64_t", sh.dimension, sh.lengths)
    \/ \E p \in HeldPointers, sh \in FewShapes : add_array_of_pointers(p, sh.dimension, sh.lengths)
    \/ \E s \in structs, show \in BOOLEAN, d \in {"", "v"} : add_struct(s, show, d)
    \/ \E s \in structs : add_struct_field("a", s)
    \/ \E s \in structs, sh \in FewShapes :
          add_struct_array("b", s, sh.dimension, sh.lengths)
    \/ \E s \in structs : add_pointer_struct_field("a", s)
    \/ \E t \in CustomInputs : add_custom("b", t)
    \/ \E tag \in TagNames : build(tag, "")
    \/ of_type("a", "uint8_t")

SpecBuilder == Init /\ [][NextBuilder]_vars

-----------------------------------------------------------------------------
(* Pointers: fields and pointers made directly by the caller, changed       *)
(* afterwards through their attributes, next to the builder's pointer       *)
(* operations.                                                              *)

NextPointer ==
    \/ \E name \in Names, f \in FieldInputs : data_field(name, f.type, f.width, None)
    \/ \E t \in CustomInputs : data_field("a", t, 0, None)
    \/ \E sh \in ShapeInputs : array_field("a", "uint64_t", sh.dimension, sh.lengths)
    \/ \E f \in held : pointer_of(f)
    \/ \E p \in HeldPointers : pointerize(p)
    \/ of_type("a", "uint8_t")
    \/ \E f \in Reachable : set_name(f, "x")
    \/ \E f \in Reachable : set_size(f, 4)
    \/ \E name \in Names : add_pointer_field(name, "uint64_t")
    \/ \E t \in CustomInputs : add_pointer_custom("a", t)
    \/ \E sh \in ShapeInputs : add_pointer_of_array("b", "uint64_t", sh.dimension, sh.lengths)
    \/ \E s \in structs : add_pointer_struct_field("a", s)
    \/ \E p \in HeldPointers, sh \in ShapeInputs :
          add_array_of_pointers(p, sh.dimension, sh.lengths)
    \/ \E tag \in TagNames : build(tag, "")

SpecPointer == Init /\ [][NextPointer]_vars

-----------------------------------------------------------------------------
(* Embedded structs.  The run starts where the docstrings' example ends:    *)
(* flag_struct built from four bit-fields, example1 built from a builder    *)
(* that embedded flag_struct as 'flags', and a builder just constructed.    *)

FlagFields ==
    << AtomicDataField("enable", "uint8_t", 2, None),
       AtomicDataField("type", "uint8_t", 2, None),
       AtomicDataField("masked", "uint8_t", 1, None),
       AtomicDataField("unused", "uint8_t", 3, None) >>

ExampleHeap ==
    LET h1 == Append(FlagFields, AtomicStructField(FlagFields, "flags", <<1, 2, 3, 4>>, ""))
        h2 == Append(h1, [h1[5] EXCEPT !.declared_struct_name = "flags"])
    IN Append(h2, AtomicStructField(h2, "example1", <<6>>, ""))

InitStruct ==
    /\ heap = ExampleHeap
    /\ fields = <<>>
    /\ structs = {5, 7}
    /\ held = {}
    /\ made = {[ptr |-> 6, src |-> 5]}
    /\ last = NoCall
    /\ nops = 0
    /\ keys = EditableInit(Schema)
    /\ coll = SizedCollectionInit("uint8_t", InitialLength, TRUE)
    /\ restr = Restriction("test", <<>>)
    /\ io = [h \in Handlers |-> Handler(<<>>, 0, TRUE, TRUE)]
    /\ wrote = [h \in Handlers |-> <<>>]
    /\ answer = NoAnswer
    /\ registered = NoHandlers
    /\ calls = <<>>
    /\ narc = NARC
    /\ added = <<>>
    /\ loaded = NoLoad

NextStruct ==
    \/ new_builder
    \/ add_field("a", "uint8_t", 3, None)
    \/ \E st \in structs, show \in BOOLEAN, d \in {"", "v"} : add_struct(st, show, d)
    \/ \E tag \in {"parent"} : build(tag, "")
    \/ \E st \in ReachableStructs, status \in BOOLEAN : set_extern(st, status)
    \/ \E name \in {"flags", "v"} : remove_field(name)

SpecStruct == InitStruct /\ [][NextStruct]_vars

-----------------------------------------------------------------------------
(* Properties of the field model and of the builder *)

Ids == 1..Len(heap)
StructIds == {id \in Ids : heap[id].cls = "struct"}

\* sum of f[1..n]
RECURSIVE Total(_, _)
Total(f, n) == IF n = 0 THEN 0 ELSE f[n] + Total(f, n - 1)

\* product of f[1..n]
RECURSIVE Product(_, _)
Product(f, n) == IF n = 0 THEN 1 ELSE f[n] * Product(f, n - 1)

ByteSizes(id) == [i \in 1..Len(heap[id].fields) |-> get_byte_size(heap[heap[id].fields[i]])]
BitSizes(id) == [i \in 1..Len(heap[id].fields) |-> get_bit_size(heap[heap[id].fields[i]])]

IsBitField(o) == o.cls = "data" /\ o.width > 0

\* C3: every built struct has byteSize = sum of its fields' byteSize plus
\* the sum of their bitSize divided by 8 and rounded up, and build() takes
\* the builder's fields as they are at that moment, in order.
C3_StructSize ==
    /\ \A id \in StructIds :
          get_byte_size(heap[id]) =
              Total(ByteSizes(id), Len(heap[id].fields))
                + (Total(BitSizes(id), Len(heap[id].fields)) + 7) \div 8
    /\ last.op = "build" => heap[last.ref].fields = DictValues(fields)

\* a struct of one 8-byte field and one 3-bit field: 8 + ceil(3/8) = 9
C3_Witness ==
    /\ last.op = "build"
    /\ Len(heap[last.ref].fields) = 2
    /\ Total(ByteSizes(last.ref), 2) = 8
    /\ Total(BitSizes(last.ref), 2) = 3
    /\ get_byte_size(heap[last.ref]) = 9

\* C4: bitSize() is 0 for every field that is not a bit-field scalar
\* (arrays, pointers, structs); a bit-field scalar reports its bitWidth.
C4_NonBitFieldsReportZero ==
    \A id \in Ids :
        IF IsBitField(heap[id])
        THEN get_bit_size(heap[id]) = heap[id].width
        ELSE get_bit_size(heap[id]) = 0

PointerOps == {"add_pointer_field", "add_pointer_custom", "add_pointer_of_array",
               "add_pointer_struct_field"}

\* C5: a pointer is created with byteSize 8 whatever it wraps, and each
\* add_pointer operation of the builder stores a field of byteSize 8.
C5_PointerSize ==
    [][ /\ last'.ret = "pointer" =>
              /\ heap'[last'.ref].cls = "pointer"
              /\ get_byte_size(heap'[last'.ref]) = 8
        /\ (last'.op \in PointerOps /\ last'.ret = "self") =>
              /\ last'.key \in DictKeys(fields')
              /\ heap'[DictGet(fields', last'.key)].cls = "pointer"
              /\ get_byte_size(heap'[DictGet(fields', last'.key)]) = 8
      ]_vars

\* a pointer to a 10x20 array of 8-byte elements (1600 bytes), next to a
\* pointer to a bit-field scalar
C5_Witness ==
    /\ last.op = "add_pointer_of_array"
    /\ last.ret = "self"
    /\ get_byte_size(heap[heap[last.ref].atomic_data_field]) = 1600
    /\ get_byte_size(heap[last.ref]) = 8
    /\ \E p \in HeldPointers : IsBitField(heap[heap[p].atomic_data_field])

Wrapped(id) == IF heap[id].cls = "pointer" THEN {heap[id].atomic_data_field} ELSE {}

\* C6: creating a pointer from F leaves F as it was, and a later change of
\* F, or of the field F wraps when F is a pointer, changes neither the
\* name, the byteSize nor the rendering of the pointer made from F.
C6_PointerHoldsCopy ==
    [][ /\ last'.op \in {"AtomicFieldPointer", "pointerize"} =>
              \A m \in made' \ made : heap'[m.src] = heap[m.src]
        /\ last'.op \in {"set_name", "set_size"} =>
              \A m \in made :
                  last'.ref \in ({m.src} \cup Wrapped(m.src)) =>
                      /\ heap'[m.ptr].name = heap[m.ptr].name
                      /\ get_byte_size(heap'[m.ptr]) = get_byte_size(heap[m.ptr])
                      /\ describe(heap', m.ptr, 0) = describe(heap, m.ptr, 0)
      ]_vars

ArrayOps == {"add_array", "add_array_custom", "add_pointer_of_array",
             "add_array_of_pointers", "add_struct_array"}

\* C7: an array of a catalog type has byteSize elementSize * product of its
\* lengths when its dimension is positive and 8 when it is 0; an array of a
\* custom type has byteSize 0.
C7_ArraySize ==
    (last.op \in {"add_array", "add_array_custom"} /\ last.ret = "self") =>
        LET o == heap[last.ref] IN
        /\ o.cls = "array"
        /\ DictGet(fields, last.key) = last.ref
        /\ get_byte_size(o) =
              IF o.type_name \in DOMAIN FieldTypes
              THEN IF last.dimension > 0
                   THEN FieldTypes[o.type_name].size * Product(o.lengths, Len(o.lengths))
                   ELSE 8
              ELSE 0

\* uint64_t [10][20] has byteSize 1600
C7_Witness ==
    /\ last.op = "add_array"
    /\ last.ret = "self"
    /\ heap[last.ref].lengths = <<10, 20>>
    /\ get_byte_size(heap[last.ref]) = 1600

Widths(id) == [i \in 1..Len(heap[id].fields) |-> heap[heap[id].fields[i]].width]

\* C8: a struct built only from bit-field scalars of N bits in total has
\* byteSize ceil(N/8); a bit-field scalar has byteSize 0 of its own.
C8_BitFieldStruct ==
    /\ \A id \in Ids : IsBitField(heap[id]) => get_byte_size(heap[id]) = 0
    /\ \A id \in StructIds :
          (\A i \in 1..Len(heap[id].fields) : IsBitField(heap[heap[id].fields[i]])) =>
              get_byte_size(heap[id]) = (Total(Widths(id), Len(heap[id].fields)) + 7) \div 8

\* uint8_t a:3 and uint64_t b:6 make 9 bits, 2 bytes
C8_Witness ==
    \E id \in StructIds :
        /\ Len(heap[id].fields) = 2
        /\ \A i \in 1..2 : IsBitField(heap[heap[id].fields[i]])
        /\ heap[heap[id].fields[1]].type_name # heap[heap[id].fields[2]].type_name
        /\ Total(Widths(id), 2) = 9
        /\ get_byte_size(heap[id]) = 2

\* C9: an array declaring operation of the builder fails with AtomicError
\* exactly when dimension # 0 and the number of lengths differs from it,
\* and a failed call leaves the builder's fields as they were.
C9_DimensionMismatch ==
    [][ last'.op \in ArrayOps =>
            /\ (last'.ret = "AtomicError") <=>
                   (last'.dimension # 0 /\ last'.nlen # last'.dimension)
            /\ last'.ret = "AtomicError" =>
                   /\ fields' = fields
                   /\ \A i \in 1..Len(fields) : heap'[fields[i].ref] = heap[fields[i].ref]
      ]_vars

\* a mismatching declaration was rejected while the builder held a field,
\* and a declaration of dimension 0 with one length was accepted
C9_Witness ==
    /\ last.op \in ArrayOps
    /\ last.ret = "AtomicError"
    /\ Len(fields) > 0
    /\ \E id \in Ids : heap[id].cls = "array" /\ heap[id].width = 0 /\ Len(heap[id].lengths) = 1

\* C10: later operations on the builder leave a built struct's fields,
\* byteSize, bitSize and rendering unchanged, and a later build() takes the
\* builder's fields as they then are.
C10_BuildSnapshot ==
    [][ /\ \A s \in structs :
              /\ heap'[s].fields = heap[s].fields
              /\ get_byte_size(heap'[s]) = get_byte_size(heap[s])
              /\ get_bit_size(heap'[s]) = get_bit_size(heap[s])
              /\ describe(heap', s, 0) = describe(heap, s, 0)
        /\ last'.op = "build" => heap'[last'.ref].fields = DictValues(fields')
      ]_vars

\* two structs built by the same builder with different fields
C10_Witness ==
    \E s1 \in structs, s2 \in structs :
        /\ s1 < s2
        /\ heap[s1].fields # heap[s2].fields
        /\ describe(heap, s1, 0) # describe(heap, s2, 0)

AddOps == {"add_field", "add_array", "add_array_custom", "add_pointer_field",
           "add_pointer_custom", "add_pointer_of_array", "add_array_of_pointers",
           "add_struct", "add_struct_field", "add_struct_array",
           "add_pointer_struct_field", "add_custom"}

FieldRefs(d) == [i \in 1..Len(d) |-> d[i].ref]
RefByteSizes(h, refs) == [i \in 1..Len(refs) |-> get_byte_size(h[refs[i]])]
RefBitSizes(h, refs) == [i \in 1..Len(refs) |-> get_bit_size(h[refs[i]])]

\* C11: the builder holds one slot per key.  A declaration under a key
\* already present does not fail because of it (it fails only as the same
\* declaration under a new key would, on a dimension mismatch), replaces
\* the slot's field where it stands and adds no slot; build() takes one
\* field per key and its byteSize counts the latest declarations only.
C11_OneSlotPerName ==
    [][ /\ \A i, j \in 1..Len(fields') : fields'[i].key = fields'[j].key => i = j
        /\ (last'.op \in AddOps /\ last'.key \in DictKeys(fields)) =>
              /\ (last'.ret = "AtomicError") <=>
                     (last'.dimension # 0 /\ last'.nlen # last'.dimension)
              /\ last'.ret = "self" =>
                     /\ Len(fields') = Len(fields)
                     /\ \A i \in 1..Len(fields) :
                            /\ fields'[i].key = fields[i].key
                            /\ fields'[i].ref =
                                  IF fields[i].key = last'.key THEN last'.ref
                                  ELSE fields[i].ref
                     /\ last'.ref > Len(heap)
        /\ last'.op = "build" =>
              LET refs == heap'[last'.ref].fields IN
              /\ Len(refs) = Cardinality(DictKeys(fields'))
              /\ refs = FieldRefs(fields')
              /\ get_byte_size(heap'[last'.ref]) =
                     Total(RefByteSizes(heap', refs), Len(refs))
                       + (Total(RefBitSizes(heap', refs), Len(refs)) + 7) \div 8
      ]_vars

\* the first of two slots holds a field declared after the second one's:
\* its key was declared again and kept its place
C11_Witness ==
    /\ last.op \in AddOps
    /\ last.ret = "self"
    /\ Len(fields) = 2
    /\ fields[1].key = last.key
    /\ fields[1].ref = last.ref
    /\ fields[1].ref > fields[2].ref
    /\ \E id \in Ids : id < fields[2].ref /\ heap[id].size # heap[last.ref].size

\* C14: an array of pointers added with add_array_of_pointers is stored
\* under the pointer's name with byteSize 8 * product of its lengths when
\* its dimension is positive and 8 when it is 0, whatever the pointer
\* points to.
C14_PointerArraySize ==
    (last.op = "add_array_of_pointers" /\ last.ret = "self") =>
        LET o == heap[last.ref] IN
        /\ o.cls = "array"
        /\ DictGet(fields, last.key) = last.ref
        /\ get_byte_size(o) =
              IF last.dimension > 0 THEN 8 * Product(o.lengths, Len(o.lengths)) ELSE 8

\* [10][20] pointers to a pointer: 1600 bytes
C14_Witness ==
    /\ last.op = "add_array_of_pointers"
    /\ last.ret = "self"
    /\ heap[last.ref].lengths = <<10, 20>>
    /\ get_byte_size(heap[last.ref]) = 1600
    /\ \E p \in HeldPointers :
          /\ heap[p].name = last.key
          /\ heap[heap[p].atomic_data_field].cls = "pointer"

\* the field at the end of a chain of pointers
RECURSIVE Pointee(_, _)
Pointee(h, id) ==
    IF h[id].cls = "pointer" THEN Pointee(h, h[id].atomic_data_field) ELSE id

\* the rendering of the pointee under the name `name`
RenderedAs(h, id, name) ==
    LET o == [h[Pointee(h, id)] EXCEPT !.name = name]
    IN IF o.cls = "array" THEN DescribeArray(o, 0) ELSE DescribeData(o, 0)

\* C17: a pointer just made has for name the name of the field it was made
\* from with one more level of indirection (`*n`, `*(n)` for an array,
\* `**n` from a pointer `*n`), and its rendering prints that name.
C17_PointerRendersOwnName ==
    [][ (last'.ret = "pointer" \/ (last'.op \in PointerOps /\ last'.ret = "self")) =>
            LET p == heap'[last'.ref] IN
            /\ p.cls = "pointer"
            /\ \A m \in made' \ made :
                   p.name = IF heap[m.src].cls = "array"
                            THEN "*(" \o heap[m.src].name \o ")"
                            ELSE "*" \o heap[m.src].name
            /\ last'.op \in PointerOps \cup {"of_type"} =>
                   p.name = IF last'.op = "add_pointer_of_array"
                            THEN "*(" \o last'.key \o ")"
                            ELSE "*" \o last'.key
            /\ describe(heap', last'.ref, 0) = RenderedAs(heap', last'.ref, p.name)
      ]_vars

\* C13 as claimed: every operation of the builder other than build(),
\* remove_field included, returns the builder it was called on.
C13_EveryOperationReturnsBuilder ==
    (last.op \in AddOps \cup {"remove_field"} /\ last.ret # "AtomicError") =>
        last.ret = "self"

\* C13 amended: every add operation that does not raise returns the
\* builder it was called on; remove_field returns None, whether the name
\* was present (and is removed) or absent (and nothing changes).
C13_AddReturnsBuilder ==
    [][ /\ (last'.op \in AddOps /\ last'.ret # "AtomicError") => last'.ret = "self"
        /\ last'.op = "remove_field" =>
              /\ last'.ret = "None"
              /\ last'.key \notin DictKeys(fields')
              /\ last'.key \notin DictKeys(fields) => fields' = fields
      ]_vars

\* a was declared, b was declared, a was removed: remove_field returned None
C13_Witness ==
    /\ last.op = "remove_field"
    /\ last.key = "a"
    /\ last.ret = "None"
    /\ Len(fields) = 1
    /\ fields[1].key = "b"
    /\ \E id \in Ids : heap[id].name = "a" /\ id < fields[1].ref

\* the structs a struct's rendering shows: itself and the ones inside it
Shown(h, id) == {id} \cup NestedStructs(h, id)

\* C12: add_struct(S, ...) changes no object that existed before it, S
\* included; and set_extern on S, or on a struct inside S, changes the
\* rendering of no copy that add_struct made of S, nor of a built struct
\* holding such a copy.
C12_EmbedByDeepCopy ==
    [][ /\ last'.op = "add_struct" =>
              /\ \A id \in Ids : heap'[id] = heap[id]
              /\ \E m \in made' \ made : m.ptr > Len(heap) /\ m.ptr = DictGet(fields', last'.key)
        /\ last'.op = "set_extern" =>
              \A m \in made :
                  (heap[m.src].cls = "struct" /\ last'.ref \in Shown(heap, m.src)) =>
                      /\ describe(heap', m.ptr, 0) = describe(heap, m.ptr, 0)
                      /\ \A p \in StructIds :
                             m.ptr \in Shown(heap, p) =>
                                 describe(heap', p, 0) = describe(heap, p, 0)
      ]_vars

\* C25: a struct built from members none of which is a bit-field of its
\* own has byteSize equal to the sum of its members' byteSizes, also when
\* a member is an embedded struct made of bit-fields (a parent embedding
\* only the 1-byte flags struct has byteSize 1).
C25_BitsRoundedOnce ==
    [][ ( /\ last'.op = "build"
          /\ \A i \in 1..Len(fields) : ~IsBitField(heap[fields[i].ref]) ) =>
            get_byte_size(heap'[last'.ref]) =
                Total(RefByteSizes(heap, DictValues(fields)), Len(fields))
      ]_vars

\* the embedded copies held by the builder, with the struct each was made of
Embedded == {m \in made : heap[m.src].cls = "struct" /\ \E i \in 1..Len(fields) : fields[i].ref = m.ptr}

\* C26: add_struct(S, showName, declaredName) stores the copy under the
\* tag name of S, replacing the member already stored under that name and
\* adding no other key; remove_field(n) removes the embedded copy of S
\* exactly when n is the tag name of S; and build() gives one member per
\* tag name, counted once in the byteSize.
C26_EmbeddedUnderTagName ==
    [][ /\ last'.op = "add_struct" =>
              \E m \in made' \ made :
                  /\ DictKeys(fields') = DictKeys(fields) \cup {heap[m.src].name}
                  /\ DictGet(fields', heap[m.src].name) = m.ptr
                  /\ heap'[m.ptr].name \in {heap[m.src].name, ""}
                  /\ Len(fields') = Cardinality(DictKeys(fields'))
        /\ last'.op = "remove_field" =>
              \A m \in Embedded :
                  (m.ptr \in {fields'[i].ref : i \in 1..Len(fields')})
                      <=> (last'.key # heap[m.src].name)
        /\ last'.op = "build" =>
              /\ \A m1, m2 \in Embedded :
                     heap[m1.src].name = heap[m2.src].name => m1.ptr = m2.ptr
              /\ heap'[last'.ref].fields = DictValues(fields)
              /\ get_byte_size(heap'[last'.ref]) =
                     Total(RefByteSizes(heap, DictValues(fields)), Len(fields))
                       + ceil8(Total(RefBitSizes(heap, DictValues(fields)), Len(fields)))
      ]_vars

\* flags was embedded twice, as 'v' and then anonymously: the builder holds
\* the second copy only, under "flags", after remove_field("v") removed nothing
C26_Witness ==
    /\ last.op = "remove_field"
    /\ last.key = "v"
    /\ Len(fields) = 1
    /\ fields[1].key = "flags"
    /\ heap[fields[1].ref].name = ""
    /\ Cardinality({m \in made : m.src = 5 /\ m.ptr > Len(ExampleHeap)}) = 2

-----------------------------------------------------------------------------
(* Value containers: an Editable over Schema and a SizedCollection *)

ValueInputs == {IntV(0), IntV(8), IntV(255), IntV(300), IntV(-1), StrV(<<0>>)}
ElementInputs == {IntV(5), IntV(300), StrV(<<65>>), StrV(<<65, 66>>)}
TextInputs == {StrV(Repeat(65, 9)), StrV(Repeat(65, 10)), StrV(Repeat(65, 8)),
               StrV(<<>>), ListV(Repeat(IntV(65), 9))}
ValidatorInputs == {Validator("even", "even", "", 0), Validator("max_100", "max", "", 100)}

NextEdit ==
    \/ \E name \in {"age", "level", "ghost"}, value \in ValueInputs : set(name, value)
    \/ \E value \in TextInputs : set("name", value)
    \/ \E name \in {"age", "ghost"}, v \in ValidatorInputs : add_restriction(name, v)
    \/ \E key \in 0..(MaxLength - 1), value \in ElementInputs : coll_setitem(key, value)
    \/ \E length \in 0..MaxLength : coll_resize(length)
    \/ \E value \in ElementInputs : coll_append(value)
    \/ coll_pop

\* the collection is one of uint8_t or one of char
InitEdit ==
    /\ heap = <<>>
    /\ fields = <<>>
    /\ structs = {}
    /\ held = {}
    /\ made = {}
    /\ last = NoCall
    /\ nops = 0
    /\ keys = EditableInit(Schema)
    /\ coll \in {SizedCollectionInit(t, InitialLength, TRUE) : t \in {"uint8_t", "char"}}
    /\ restr = Restriction("test", <<>>)
    /\ io = [h \in Handlers |-> Handler(<<>>, 0, TRUE, TRUE)]
    /\ wrote = [h \in Handlers |-> <<>>]
    /\ answer = NoAnswer
    /\ registered = NoHandlers
    /\ calls = <<>>
    /\ narc = NARC
    /\ added = <<>>
    /\ loaded = NoLoad

SpecEdit == InitEdit /\ [][NextEdit]_vars

-----------------------------------------------------------------------------
(* A Restriction on its own: made with any validators in any order, given   *)
(* more with restrict, asked to validate.                                   *)

ValidatorPool ==
    { Validator("type", "isinstance", "int", 0),
      Validator("value", "range", "uint8_t", 0),
      Validator("value_is_even", "even", "", 0),
      Validator("max_100", "max", "", 100) }

ValidatorLists ==
    {<<>>} \cup {<<v>> : v \in ValidatorPool}
           \cup {<<v, w>> : v \in ValidatorPool, w \in ValidatorPool}

ValidatedInputs == {IntV(8), IntV(7), IntV(102), IntV(300), IntV(301), StrV(<<65>>)}

NextRestriction ==
    \/ \E validators \in ValidatorLists : new_restriction("test", validators)
    \/ \E v \in ValidatorPool : restriction_restrict(v)
    \/ \E value \in ValidatedInputs : restriction_validate(value)

SpecRestriction == Init /\ [][NextRestriction]_vars

-----------------------------------------------------------------------------
(* The byte-stream handlers: an IOBytesHandler loaded from a file and an    *)
(* IOFileHandler opened 'rw' on a file, both with the same contents.        *)

InitialContents == {<<>>, <<66, 66, 0, 66>>}

\* A, e with an acute accent (two bytes in UTF-8)
TextInputsIO == {<<>>, <<65>>, <<233>>, <<65, 233>>}

InitIO ==
    /\ heap = <<>>
    /\ fields = <<>>
    /\ structs = {}
    /\ held = {}
    /\ made = {}
    /\ last = NoCall
    /\ nops = 0
    /\ keys = EditableInit(Schema)
    /\ coll = SizedCollectionInit("uint8_t", InitialLength, TRUE)
    /\ restr = Restriction("test", <<>>)
    /\ \E content \in InitialContents :
          io = [h \in Handlers |-> Handler(content, 0, TRUE, TRUE)]
    /\ wrote = [h \in Handlers |-> <<>>]
    /\ answer = NoAnswer
    /\ registered = NoHandlers
    /\ calls = <<>>
    /\ narc = NARC
    /\ added = <<>>
    /\ loaded = NoLoad

NextIO ==
    \/ \E h \in Handlers, string \in TextInputsIO : io_write_str(h, string)
    \/ \E h \in Handlers, position \in 0..MaxSeek : io_seek(h, position)
    \/ \E h \in Handlers : io_read_str(h)

SpecIO == InitIO /\ [][NextIO]_vars

\* C20: when write_str(s) was the last write of a handler, made at a
\* position p within the contents with s free of null characters, and
\* the handler stands at p again, read_str() returns s and leaves the
\* position at p + len(utf8(s)) + 1; for both handlers.
C20_TextRoundTrip ==
    [][ \A h \in Handlers :
          ( /\ last'.op = "read_str"
            /\ last'.key = h
            /\ wrote[h] # <<>>
            /\ io[h].position = wrote[h][1].at
            /\ wrote[h][1].at <= wrote[h][1].size
            /\ \A i \in 1..Len(wrote[h][1].text) : wrote[h][1].text[i] # 0 ) =>
              /\ last'.ret = "None"
              /\ last'.arg = StrV(wrote[h][1].text)
              /\ io'[h].position = wrote[h][1].at + Len(Utf8(wrote[h][1].text)) + 1
      ]_vars

-----------------------------------------------------------------------------
(* Writing through the handlers: write, write_bytes and align at positions *)
(* set with seek, before, at and past the end of the contents.             *)

ModeInputs == {"uint8", "int16"}
ScalarInputs == {65, 0 - 2, 300}
BytesInputs == {<<>>, <<65>>, <<65, 0>>}
BoundaryInputs == {0, 2, 4}
FillInputs == {<<0>>, <<255, 1>>}

NextWrite ==
    \/ \E h \in Handlers, mode \in ModeInputs, value \in ScalarInputs : io_write(h, mode, value)
    \/ \E h \in Handlers, string \in BytesInputs : io_write_bytes(h, string)
    \/ \E h \in Handlers, byte_number \in BoundaryInputs, value \in FillInputs :
          io_align(h, byte_number, value)
    \/ \E h \in Handlers, position \in 0..MaxSeek : io_seek(h, position)

SpecWrite == InitIO /\ [][NextWrite]_vars

\* the smallest multiple of boundary that is >= p
AlignedUp(p, boundary) == ((p + boundary - 1) \div boundary) * boundary

\* C21: align(boundary, fill) called at a position p within the contents
\* leaves the position at the smallest multiple of boundary that is >= p,
\* having written the fill byte at every offset from p up to it, and
\* changes nothing when p is already a multiple of boundary.
C21_AlignPadsToBoundary ==
    [][ \A h \in Handlers :
          ( /\ last'.op = "align"
            /\ last'.key = h
            /\ last'.arg.n > 0
            /\ io[h].position <= Len(io[h].content) ) =>
              LET p == io[h].position
                  target == AlignedUp(p, last'.arg.n)
              IN /\ last'.ret = "None"
                 /\ io'[h].position = target
                 /\ Len(io'[h].content) >= target
                 /\ \A i \in (p + 1)..target : io'[h].content[i] = last'.arg.items[1]
                 /\ (target = p => io'[h] = io[h])
      ]_vars

\* the bytes a write call was given: the packed value, or the data
Payload(call) ==
    IF call.op = "write" THEN pack(call.arg.kind, call.arg.n).data ELSE call.arg.items

\* C22: a write or write_bytes that returns, made at position p with a
\* payload of n bytes, puts the payload at offsets p..p+n-1, leaves every
\* other byte as it was, makes the length max(old length, p+n) and moves
\* the position to p+n; for every p set with seek.
C22_WriteInPlace ==
    [][ \A h \in Handlers :
          ( /\ last'.op \in {"write", "write_bytes"}
            /\ last'.key = h
            /\ last'.ret = "None" ) =>
              LET p == io[h].position
                  payload == Payload(last')
                  n == Len(payload)
                  old == io[h].content
                  new == io'[h].content
              IN /\ Len(new) = Max(Len(old), p + n)
                 /\ \A i \in 1..n : p + i <= Len(new) /\ new[p + i] = payload[i]
                 /\ \A i \in 1..Len(old) :
                       (i <= p \/ i > p + n) => (i <= Len(new) /\ new[i] = old[i])
                 /\ io'[h].position = p + n
      ]_vars

-----------------------------------------------------------------------------
(* The two handlers side by side: every call is made on both, starting from *)
(* the same contents.                                                       *)

NextPair ==
    \/ \E mode \in ModeInputs : both_read(mode)
    \/ both_read_str
    \/ \E mode \in ModeInputs, value \in ScalarInputs : both_write(mode, value)
    \/ \E string \in BytesInputs : both_write_bytes(string)
    \/ \E string \in TextInputsIO : both_write_str(string)
    \/ \E byte_number \in BoundaryInputs, value \in FillInputs : both_align(byte_number, value)
    \/ \E position \in 0..MaxSeek : both_seek(position)

SpecPair == InitIO /\ [][NextPair]_vars

\* C27: after any sequence of calls made on both handlers that stayed
\* within the contents, every call so far returned the same on both (the
\* last one included) and both have the same position and contents.
C27_HandlersEquivalent ==
    answer.within =>
        /\ answer["bytes"] = answer["file"]
        /\ io["bytes"].position = io["file"].position
        /\ io["bytes"].content = io["file"].content

-----------------------------------------------------------------------------
(* The event manager, with some handlers already registered for event a.   *)

EventNames == {"a", "b"}
HandlerInputs == {"log", "stop", "leave", "join"}
RemoveInputs == {"log", "leave"}
StartLists == {<<"log", "stop">>, <<"leave", "log">>}
EventInputs == {Event(n) : n \in EventNames} \cup {cancel(Event("a"))}

InitEvent ==
    /\ heap = <<>>
    /\ fields = <<>>
    /\ structs = {}
    /\ held = {}
    /\ made = {}
    /\ last = NoCall
    /\ nops = 0
    /\ keys = EditableInit(Schema)
    /\ coll = SizedCollectionInit("uint8_t", InitialLength, TRUE)
    /\ restr = Restriction("test", <<>>)
    /\ io = [h \in Handlers |-> Handler(<<>>, 0, TRUE, TRUE)]
    /\ wrote = [h \in Handlers |-> <<>>]
    /\ answer = NoAnswer
    /\ \/ registered = NoHandlers
       \/ \E list \in StartLists :
             registered = register_event_handler(
                              register_event_handler(NoHandlers, "a", list[1]), "a", list[2])
    /\ calls = <<>>
    /\ narc = NARC
    /\ added = <<>>
    /\ loaded = NoLoad

NextEvent ==
    \/ \E n \in EventNames, event_handler \in HandlerInputs : em_register(n, event_handler)
    \/ \E n \in EventNames, event_handler \in RemoveInputs : em_remove(n, event_handler)
    \/ \E n \in EventNames : em_remove_all(n)
    \/ \E event \in EventInputs : em_fire(event)

SpecEvent == InitEvent /\ [][NextEvent]_vars

Count(x, list) == Cardinality({i \in 1..Len(list) : list[i] = x})
Members(list) == {list[i] : i \in 1..Len(list)}

\* the handlers that leave the registrations alone
Passive == {"log", "stop", "late"}

\* a list up to and including its first handler that cancels the event
UpToCancel(list) ==
    IF "stop" \notin Members(list) THEN list
    ELSE SubSeq(list, 1, CHOOSE i \in 1..Len(list) :
                              list[i] = "stop" /\ \A j \in 1..(i - 1) : list[j] # "stop")

\* C23: fire(event) of an event not cancelled yet, while no handler of
\* event.name changes the registrations, calls exactly the handlers
\* registered under event.name, in registration order and once per
\* registration, up to and including the first one that cancels the event;
\* it calls no handler when event.name has no registration.
C23_FireInRegistrationOrder ==
    [][ ( /\ last'.op = "fire"
          /\ last'.arg.n = 0
          /\ last'.key \in DOMAIN registered => Members(registered[last'.key]) \subseteq Passive ) =>
            /\ last'.ret = "None"
            /\ calls' = IF last'.key \in DOMAIN registered
                        THEN UpToCancel(registered[last'.key]) ELSE <<>>
      ]_vars

\* fire(a) called log and stop but not the log registered after stop, nor
\* the handler of b
C23_Witness ==
    /\ last.op = "fire"
    /\ last.key = "a"
    /\ last.arg = Val("event", 0, <<1>>)
    /\ calls = <<"log", "stop">>
    /\ registered = [n \in EventNames |-> IF n = "a" THEN <<"log", "stop", "log">> ELSE <<"join">>]

\* C29: in a fire(event) that returns, of an event not cancelled yet, no
\* handler registered at the start is called more often than it was
\* registered, and when the event was not cancelled every registration
\* made before the fire and still there after it has been called.
C29_MutationDuringFire ==
    [][ ( /\ last'.op = "fire"
          /\ last'.arg.n = 0
          /\ last'.ret = "None"
          /\ last'.key \in DOMAIN registered ) =>
            \A x \in Members(registered[last'.key]) \ {"late"} :
                /\ Count(x, calls') <= Count(x, registered[last'.key])
                /\ last'.arg.items[1] = 0 =>
                      Count(x, calls') >= Count(x, registered'[last'.key])
      ]_vars

-----------------------------------------------------------------------------
(* The catalog: members looked up by name and used to declare fields.      *)

TypeNameInputs == DOMAIN FieldTypes \cup {"custom_type", "int", "CHAR", ""}

NextCatalog ==
    \/ \E type_name \in TypeNameInputs : find_type(type_name)
    \/ \E name \in Names : add_found_field(name)

SpecCatalog == Init /\ [][NextCatalog]_vars

\* C24: every catalog entry has size > 0 and carries the name it is
\* registered under, every int or float entry has min <= 0 <= max, and
\* from_type_name(n) returns, without raising, the entry named n when n is
\* a catalog key and None when it is not.
C24_CatalogWellFormed ==
    /\ \A k \in DOMAIN FieldTypes :
          /\ FieldTypes[k].size > 0
          /\ FieldTypes[k].type_name = k
          /\ FieldTypes[k].python_type \in {"int", "float"} =>
                BoundLeq(FieldTypes[k].min, 0) /\ LeqBound(0, FieldTypes[k].max)
    /\ last.op = "from_type_name" =>
          /\ last.ret = "None"
          /\ IF last.key \in DOMAIN FieldTypes
             THEN last.arg # None /\ last.arg.type_name = last.key /\ last.arg.size > 0
             ELSE last.arg = None

\* a field was declared with the member found for uint16_t, and then the
\* lookup of "int" found nothing
C24_Witness ==
    /\ last.op = "from_type_name"
    /\ last.key = "int"
    /\ last.arg = None
    /\ \E i \in 1..Len(heap) : heap[i].type_name = "uint16_t" /\ heap[i].size = 2

-----------------------------------------------------------------------------
(* Properties of the value containers *)

Rejects(r, value) == \E i \in 1..Len(r.validators) : ~Eval(r.validators[i], value)

\* C1: setting a restricted field is validate-then-commit: when a
\* validator of the field rejects the value the call fails with
\* RestrictionError and no field changes, otherwise the value is stored
\* (and only that field changes).
C1_ValidateThenCommit ==
    [][ (last'.op = "setattr" /\ last'.key \in DOMAIN keys) =>
            IF Rejects(keys[last'.key].restriction, last'.arg)
            THEN /\ last'.ret = "RestrictionError"
                 /\ keys' = keys
            ELSE /\ last'.ret = "None"
                 /\ keys'[last'.key].value = last'.arg
                 /\ \A name \in DOMAIN keys \ {last'.key} : keys'[name] = keys[name]
                 /\ keys'[last'.key].restriction = keys[last'.key].restriction
      ]_vars

\* age = 300 was rejected and age is still 0, after level was set to 8
C1_Witness ==
    /\ last.op = "setattr"
    /\ last.key = "age"
    /\ last.arg = IntV(300)
    /\ last.ret = "RestrictionError"
    /\ keys["age"].value = IntV(0)
    /\ keys["level"].value = IntV(8)

\* the validators before the i-th all return true for the value
PassesBefore(validators, value, i) ==
    \A j \in 1..(i - 1) : ~Raises(validators[j], value) /\ Eval(validators[j], value)

\* C16: validate(value) returns normally when every validator, taken in
\* registration order (the constructor's, then each restrict()'s), returns
\* true; when validator i is the first to return false it raises a
\* RestrictionError naming validator i, whatever a later validator would
\* do with the value; it leaves the restriction as it was.
C16_FirstFailingReported ==
    [][ last'.op = "validate" =>
            LET validators == restr.validators
                value == last'.arg
            IN /\ restr' = restr
               /\ PassesBefore(validators, value, Len(validators) + 1) => last'.ret = "None"
               /\ \A i \in 1..Len(validators) :
                      ( /\ PassesBefore(validators, value, i)
                        /\ ~Raises(validators[i], value)
                        /\ ~Eval(validators[i], value) ) =>
                          /\ last'.ret = "RestrictionError"
                          /\ last'.key = validators[i].name
               /\ last'.ret = "None" => PassesBefore(validators, value, Len(validators) + 1)
      ]_vars

\* three validators, the last given with restrict(); the second is the
\* first to return false and is named, the third would have failed too
C16_Witness ==
    /\ last.op = "validate"
    /\ last.ret = "RestrictionError"
    /\ Len(restr.validators) = 3
    /\ last.key = restr.validators[2].name
    /\ Eval(restr.validators[1], last.arg)
    /\ ~Eval(restr.validators[2], last.arg)
    /\ ~Eval(restr.validators[3], last.arg)
    /\ restr.validators[3].name # restr.validators[2].name

TextFields == {i \in 1..Len(Schema) : Schema[i].cls = "array" /\ Schema[i].type_name = "char"}

\* C15: a text array field of declared length L starts as a text of L - 1
\* null characters, as does a SizedCollection of char of length L; a set
\* of the field is accepted exactly when the value is a text of L - 1
\* characters, and a rejected set fails with RestrictionError and leaves
\* the stored value as it was.
C15_TextArrayLength ==
    [][ /\ nops = 0 =>
              /\ \A i \in TextFields :
                     keys[Schema[i].name].value = StrV([j \in 1..(Schema[i].lengths[1] - 1) |-> 0])
              /\ IsStr(coll) => Entries(coll) = [j \in 1..(InitialLength - 1) |-> 0]
        /\ \A i \in TextFields :
              (last'.op = "setattr" /\ last'.key = Schema[i].name) =>
                  IF last'.arg.kind = "str" /\ Len(last'.arg.items) = Schema[i].lengths[1] - 1
                  THEN /\ last'.ret = "None"
                       /\ keys'[last'.key].value = last'.arg
                  ELSE /\ last'.ret = "RestrictionError"
                       /\ keys'[last'.key].value = keys[last'.key].value
      ]_vars

\* after a text of 9 characters was stored in name[10], one of 10 was
\* rejected and the 9 are still there
C15_Witness ==
    /\ last.op = "setattr"
    /\ last.key = "name"
    /\ Len(last.arg.items) = 10
    /\ last.ret = "RestrictionError"
    /\ keys["name"].value = StrV(Repeat(65, 9))

\* the native kind the elements of a list-valued collection must have
ElementKind(k) ==
    LET validators == k["entries"].restriction.validators
    IN validators[CHOOSE i \in 1..Len(validators) : validators[i].fn = "items_type"].kind

\* C18: on a list-valued SizedCollection, c[key] = v with a value of the
\* wrong kind raises RestrictionError, and an assignment that raises
\* RestrictionError leaves every element, the one at key included, as it
\* was before.
C18_NoPartialMutation ==
    [][ (last'.op = "setitem" /\ ~IsStr(coll) /\ last'.ret # "IndexError") =>
            /\ last'.arg.kind # ElementKind(coll) => last'.ret = "RestrictionError"
            /\ last'.ret = "RestrictionError" => Entries(coll') = Entries(coll)
      ]_vars

\* a value that may be an element of the collection
IsElement(k, value) ==
    IF IsStr(k) THEN value.kind = "str" /\ Len(value.items) = 1
    ELSE value.kind = ElementKind(k)

LengthValid(k) == ~Rejects(k["entries"].restriction, k["entries"].value)

\* C19: on a resizable collection that is not empty, resize(n) with n >= 1,
\* append(v) of an element and pop() complete without an error, leave
\* the collection with the length asked for (n, one more, one less), new
\* slots of resize holding the first element and append's last slot
\* holding v, and the entries still validate.
C19_Resizable ==
    [][ (coll["resizable"].value.n = 1 /\ Entries(coll) # <<>>) =>
          /\ (last'.op = "resize" /\ last'.arg.n >= 1) =>
                /\ last'.ret = "None"
                /\ CollLength(coll') = last'.arg.n
                /\ \A i \in (Len(Entries(coll)) + 1)..Len(Entries(coll')) :
                       Entries(coll')[i] = Entries(coll)[1]
                /\ LengthValid(coll')
          /\ (last'.op = "append" /\ IsElement(coll, last'.arg)) =>
                /\ last'.ret = "None"
                /\ CollLength(coll') = CollLength(coll) + 1
                /\ LengthValid(coll')
          /\ last'.op = "pop" =>
                /\ last'.ret = "None"
                /\ CollLength(coll') = CollLength(coll) - 1
                /\ LengthValid(coll')
      ]_vars

\* C2: in every reachable state every field's stored value satisfies every
\* validator of its restriction (validate() of the container succeeds).
C2_AlwaysValid ==
    /\ \A name \in DOMAIN keys : ~Rejects(keys[name].restriction, keys[name].value)
    /\ \A name \in DOMAIN coll : ~Rejects(coll[name].restriction, coll[name].value)

-----------------------------------------------------------------------------
(* A NARC on its own: files are added to a new archive and exported.        *)

\* the files a caller adds: handlers over a few contents none of which
\* holds the fill byte, one of them a file handler that cannot be read
FileInputs ==
    {Handler(content, 0, TRUE, TRUE) : content \in {<<>>, <<1>>, <<1, 2>>}}
        \cup {Handler(<<7>>, 0, FALSE, TRUE)}

OffsetInputs == {0, 1, 2}

NextNarc ==
    \/ \E file \in FileInputs, offset \in OffsetInputs : narc_add_file(file, offset, <<>>, 0)
    \/ narc_export

SpecNarc == Init /\ [][NextNarc]_vars

\* C28: after any sequence of add_file(file, offset) calls on a new NARC,
\* offset a number of fill bytes: BTAF holds one [start, end] entry per
\* file added, in call order, and file_number counts them; each entry is
\* as long as its file; an entry starts at or after the end of the one
\* before; current_offset is the length of gmif.files and section_size - 8
\* of GMIF; and gmif.files[start:end], the slice export writes, is the
\* content of the file.
C28_TableMatchesData ==
    LET files_offset == narc.btaf.files_offset
    IN /\ Len(files_offset) = Len(added)
       /\ narc.btaf.file_number = Len(files_offset)
       /\ \A i \in 1..Len(files_offset) :
             /\ files_offset[i][2] - files_offset[i][1] = Len(added[i].content)
             /\ file_content(narc, i) = added[i].content
             /\ i > 1 => files_offset[i][1] >= files_offset[i - 1][2]
       /\ narc.btaf.current_offset = Len(narc.gmif.files)
       /\ Len(narc.gmif.files) = narc.gmif.section_size - 8

\* three files are in the archive, the second after two fill bytes and the
\* third, empty, after one
C28_Witness ==
    /\ Len(added) = 3
    /\ added[1].content = <<1>>
    /\ added[2] = [content |-> <<1, 2>>, offset |-> 2]
    /\ added[3] = [content |-> <<>>, offset |-> 1]
    /\ narc.btaf.files_offset[2] = <<3, 5>>
    /\ narc.gmif.files = <<1, 255, 255, 1, 2, 255>>

-----------------------------------------------------------------------------
(* The file name table on its own: a BTNF as constructed, or after          *)
(* use_nametable(), gets directories and files, is saved to a new handler   *)
(* and loaded back from it.                                                  *)

ParentInputs == {0, 1}
DirectoryNames == {<<>>, <<100>>}
FileNames == {<<>>, <<97>>, <<97, 98>>}

InitBtnf ==
    /\ heap = <<>>
    /\ fields = <<>>
    /\ structs = {}
    /\ held = {}
    /\ made = {}
    /\ last = NoCall
    /\ nops = 0
    /\ keys = EditableInit(Schema)
    /\ coll = SizedCollectionInit("uint8_t", InitialLength, TRUE)
    /\ restr = Restriction("test", <<>>)
    /\ io = [h \in Handlers |-> Handler(<<>>, 0, TRUE, TRUE)]
    /\ wrote = [h \in Handlers |-> <<>>]
    /\ answer = NoAnswer
    /\ registered = NoHandlers
    /\ calls = <<>>
    /\ \E value \in BOOLEAN : narc = [NARC EXCEPT !.btnf = use_nametable(@, value)]
    /\ added = <<>>
    /\ loaded = NoLoad

NextBtnf ==
    \/ \E value \in BOOLEAN : btnf_use_nametable(value)
    \/ \E parent_id \in ParentInputs, directory_name \in DirectoryNames,
          directory_id \in ParentInputs :
            btnf_add_directory(8, 0, parent_id, directory_name, directory_id)
    \/ \E parent_id \in ParentInputs, file_name \in FileNames :
            btnf_add_file(parent_id, file_name)
    \/ \E h \in Handlers : btnf_save(h)
    \/ btnf_load

SpecBtnf == InitBtnf /\ [][NextBtnf]_vars

\* C30: load of a section that save wrote returns, and has then read
\* exactly section_size bytes of it: it neither fails nor reads beyond the
\* section, whatever main table and name table was saved.
C30_LoadReadsTheSection ==
    loaded.state = "loaded" =>
        /\ loaded.ret = "None"
        /\ loaded.reader.position = loaded.saved.section_size

====
